---- MODULE Spec2Model ----
(***************************************************************************)
(* A model of artiq/compiler/transforms/ir_generator.py: the IRGenerator   *)
(* visitor that lowers a typed syntax tree to basic blocks, followed by an *)
(* interpreter that walks the emitted control-flow graph.                  *)
(*                                                                         *)
(* The generator is a record `gen` holding the fields of IRGenerator and   *)
(* the functions/blocks built so far.  The recursion of the visitors is    *)
(* kept on an explicit stack of frames, one per active call of             *)
(* IRGenerator.visit: every visitor is an operator from (frame, generator) *)
(* to the generator it leaves behind when it next calls visit or returns,  *)
(* written in the order of the Python statements.  The execution part      *)
(* steps through one emitted function, one instruction per step.           *)
(***************************************************************************)
EXTENDS Integers, Sequences, FiniteSets, TLC

\* ------------------------------------------------------------------ bounds
\* Deepest nesting of compound statements inside the outermost function.
MaxNest == 2
\* Longest recorded execution history (calls, branches taken) of one run.
MaxHist == 12

\* ------------------------------------------------------------------ values
\* ir.Value: the Python None, constants, instruction results (by instruction
\* id), basic blocks used as operands, functions and formal arguments.
None == [k |-> "none", n |-> 0]
Constant(n) == [k |-> "const", n |-> n]
ConstNone == [k |-> "constnone", n |-> 0]
ConstBool(b) == [k |-> "bool", n |-> IF b THEN 1 ELSE 0]
InsnV(id) == [k |-> "insn", n |-> id]
BlockV(b) == [k |-> "block", n |-> b]
FuncV(f) == [k |-> "func", n |-> f]
ArgV(i) == [k |-> "arg", n |-> i]
Undef == [k |-> "undef", n |-> 0]

\* An instruction: opcode, operands, basic-block operands, a name/attribute.
\* id and loc are filled in when the instruction is appended.
Ins(op, args, blks, s) == [op |-> op, id |-> 0, loc |-> 0, args |-> args, blks |-> blks, s |-> s]

\* The instructions that end a basic block by transferring control.
Terminators == {"Branch", "BranchIf", "IndirectBranch", "Return", "Raise", "Unreachable", "Invoke", "LandingPad"}

\* Bind([x \in {v} |-> e]) is e with x standing for the value v: the local
\* variable assignments of a visitor, in the order of its statements.
Bind(f) == f[CHOOSE x \in DOMAIN f : TRUE]

\* ir.BasicBlock.is_terminated
is_terminated(g, b) ==
  /\ g.blocks[b].insns # <<>>
  /\ g.blocks[b].insns[Len(g.blocks[b].insns)].op \in Terminators

\* ir.BasicBlock.append: appending to a terminated block keeps the block as it
\* is and discards the instruction.  `late` records each such discarded append.
BasicBlock_append(g, b, ins, loc) ==
  IF is_terminated(g, b)
  THEN [g EXCEPT !.nid = @ + 1,
                 !.late = @ \cup {[block |-> b, op |-> ins.op, loc |-> g.current_loc]}]
  ELSE [g EXCEPT !.nid = @ + 1,
                 !.blocks[b].insns = Append(@, [ins EXCEPT !.id = g.nid + 1, !.loc = loc])]

\* ir.BasicBlock.predecessors: the blocks whose terminator names b.
predecessors(g, b) ==
  {p \in 1..Len(g.blocks) :
      /\ g.blocks[p].live
      /\ is_terminated(g, p)
      /\ \E j \in 1..Len(g.blocks[p].insns[Len(g.blocks[p].insns)].blks) :
            g.blocks[p].insns[Len(g.blocks[p].insns)].blks[j] = b}

\* ir.Function.remove
Function_remove(g, b) == [g EXCEPT !.blocks[b].live = FALSE]

\* ir.Phi.add_incoming on the Phi with instruction id `id` in block b.
add_incoming(g, b, id, v, pred) ==
  [g EXCEPT !.blocks[b].insns =
      [i \in 1..Len(g.blocks[b].insns) |->
         IF g.blocks[b].insns[i].id = id
         THEN [g.blocks[b].insns[i] EXCEPT !.args = Append(@, v), !.blks = Append(@, pred)]
         ELSE g.blocks[b].insns[i]]]

\* ir.LandingPad.add_clause on the landing pad of block b (its only instruction).
add_clause(g, b, target) == [g EXCEPT !.blocks[b].insns[1].blks = Append(@, target)]

\* -------------------------------------------------------------- generator
\* IRGenerator.__init__.  Basic blocks are numbered in creation order, 0 is
\* the Python None where a field holds a block.  `stack` holds the frames of
\* the active visits, `ret` the value the last finished visit returned and
\* `failed` says that an exception is propagating out of the visitors.
NewGenerator ==
  [functions |-> <<>>, blocks |-> <<>>, nid |-> 0, name |-> <<"m">>,
   current_loc |-> 0, current_function |-> 0, current_globals |-> {},
   current_block |-> 0, current_env |-> None, current_private_env |-> None,
   current_assign |-> None, break_target |-> 0, continue_target |-> 0,
   return_target |-> 0, unwind_target |-> 0,
   stack |-> <<>>, ret |-> None, failed |-> FALSE, late |-> {}, unrestored |-> {}, ends |-> {},
   finals |-> {}]

\* IRGenerator.add_block.  The block remembers the source location being
\* visited when it was created.
add_block(g, name) ==
  [g EXCEPT !.blocks = Append(@, [name |-> name, fn |-> g.current_function,
                                   loc |-> g.current_loc, insns |-> <<>>, live |-> TRUE])]

\* The block add_block has just created.
NewBlock(g) == Len(g.blocks)

\* IRGenerator.append (block defaults to the current block, loc to current_loc)
append(g, ins) == BasicBlock_append(g, g.current_block, ins, g.current_loc)

\* The value of the instruction created last.
LastV(g) == InsnV(g.nid)

\* IRGenerator.terminate
terminate(g, ins) == IF ~is_terminated(g, g.current_block) THEN append(g, ins) ELSE g

\* IRGenerator._env_for: the generator and the environment value.
env_for(g, name) ==
  IF name \in g.current_globals
  THEN [g |-> append(g, Ins("Builtin", <<g.current_env>>, <<>>, "globalenv")), val |-> InsnV(g.nid + 1)]
  ELSE [g |-> g, val |-> g.current_env]

\* IRGenerator._get_local; the GetLocal is the instruction created last.
get_local(g, name) ==
  Bind([e \in {env_for(g, name)} |-> append(e.g, Ins("GetLocal", <<e.val>>, <<>>, name))])

\* IRGenerator._set_local
set_local(g, name, value) ==
  Bind([e \in {env_for(g, name)} |-> append(e.g, Ins("SetLocal", <<e.val, value>>, <<>>, name))])

\* ------------------------------------------------------------ visit frames
\* The context fields a visitor may override.
Context(g) ==
  <<g.current_function, g.current_env, g.current_private_env, g.current_globals,
    g.break_target, g.continue_target, g.return_target, g.unwind_target>>

\* The statement node classes.
StmtKinds ==
  {"Expr", "Return", "Break", "Continue", "Raise", "Assign", "AugAssign", "If", "While", "For", "Try",
   "FunctionDefT"}

\* A Python list of nodes, as an object handed to IRGenerator.visit.
List(elts) == [kind |-> "list", elts |-> elts]

\* The frame of one call of IRGenerator.visit(obj): the object, the position
\* reached in its visitor (pc), the visitor's local variables (l), and
\* current_loc and the context fields as they were on entry.
Frame(obj, g) == [node |-> obj, pc |-> 0, l |-> <<>>, old_loc |-> g.current_loc, ctx |-> Context(g)]

Top(g) == g.stack[Len(g.stack)]
Front(s) == SubSeq(s, 1, Len(s) - 1)

\* The frame fr at position pc, with the local variables in `locals` assigned.
With(fr, pc, locals) == [fr EXCEPT !.pc = pc, !.l = locals @@ @]

\* The visitor in the top frame goes on at fr.
goto(g, fr) == [g EXCEPT !.stack = Append(Front(@), fr)]

\* IRGenerator.visit(obj), called by the visitor in the top frame, which goes
\* on at fr when the visit returns; for a node, current_loc becomes its loc.
visit(g, fr, obj) ==
  [g EXCEPT !.stack = Append(Append(Front(@), fr), Frame(obj, g)),
            !.current_loc = IF obj.kind = "list" THEN @ ELSE obj.loc]

\* The visit in the top frame is over, returning val: for a node, the finally
\* clause of IRGenerator.visit puts current_loc back.  `unrestored` records the
\* statement visits that leave a context field different from its value on
\* entry, and the positions of these fields in Context.
return(g, val) ==
  [g EXCEPT !.stack = Front(@),
            !.ret = val,
            !.current_loc = IF Top(g).node.kind = "list" THEN @ ELSE Top(g).old_loc,
            !.unrestored = IF Top(g).node.kind \in StmtKinds /\ Context(g) # Top(g).ctx
                           THEN @ \cup {[loc |-> Top(g).node.loc, kind |-> Top(g).node.kind,
                                         failed |-> g.failed,
                                         fields |-> {k \in 1..8 : Context(g)[k] # Top(g).ctx[k]}]}
                           ELSE @]

\* A Python exception is raised in the visitor of the top frame.
raise(g) == [g EXCEPT !.failed = TRUE]

\* any(nodes) for a list of syntax nodes
any(list) == list # <<>>

\* ------------------------------------------------------ expression visitors
\* IRGenerator.visit_NumT
visit_NumT(fr, g) == return(g, Constant(fr.node.n))

\* IRGenerator.visit_NameT
visit_NameT(fr, g) ==
  IF g.current_assign = None
  THEN Bind([g1 \in {get_local(g, fr.node.id)} |-> return(g1, LastV(g1))])
  ELSE return(set_local(g, fr.node.id, g.current_assign), None)

\* The finally clause of visit_AttributeT, around the visit of node.value.
AttributeT_finally(fr, g) == [g EXCEPT !.current_assign = fr.l.old_assign]

\* IRGenerator.visit_AttributeT
visit_AttributeT(fr, g) ==
  CASE fr.pc = 0 ->
         visit([g EXCEPT !.current_assign = None], With(fr, 1, [old_assign |-> g.current_assign]),
               fr.node.value)
    [] fr.pc = 1 ->
         Bind([g1 \in {AttributeT_finally(fr, g)} |->
           IF g1.current_assign = None
           THEN Bind([g2 \in {append(g1, Ins("GetAttr", <<g.ret>>, <<>>, fr.node.attr))} |->
                  return(g2, LastV(g2))])
           ELSE return(append(g1, Ins("SetAttr", <<g.ret, g1.current_assign>>, <<>>, fr.node.attr)), None)
         ])

\* IRGenerator.visit_BoolOpT, second loop: zip(blocks, blocks[1:] + [tail])
RECURSIVE BoolOp_branches(_, _, _, _, _, _)
BoolOp_branches(op, blocks, i, tail, phi, g) ==
  IF i > Len(blocks) THEN g
  ELSE BoolOp_branches(op, blocks, i + 1, tail, phi,
         BasicBlock_append(
           add_incoming(g, tail, phi, blocks[i].value, blocks[i].block),
           blocks[i].block,
           Ins("BranchIf", <<blocks[i].value>>,
               IF op = "And"
               THEN <<IF i < Len(blocks) THEN blocks[i + 1].block ELSE tail, tail>>
               ELSE <<tail, IF i < Len(blocks) THEN blocks[i + 1].block ELSE tail>>,
               ""),
           0))

\* IRGenerator.visit_BoolOpT
visit_BoolOpT(fr, g) ==
  CASE fr.pc = 0 -> goto(g, With(fr, 1, [blocks |-> <<>>]))
    \* for value_node in node.values: value = self.visit(value_node)
    [] fr.pc = 1 ->
         IF Len(fr.l.blocks) < Len(fr.node.values)
         THEN visit(g, With(fr, 2, <<>>), fr.node.values[Len(fr.l.blocks) + 1])
         ELSE goto(g, With(fr, 3, <<>>))
    \* blocks.append((value, self.current_block)); a new current block
    [] fr.pc = 2 ->
         Bind([g1 \in {add_block(g, "")} |->
           goto([g1 EXCEPT !.current_block = NewBlock(g1)],
                With(fr, 1, [blocks |-> Append(fr.l.blocks, [value |-> g.ret, block |-> g.current_block])]))
         ])
    [] fr.pc = 3 ->
         Bind([g1 \in {append(g, Ins("Phi", <<>>, <<>>, ""))} |->
           return(BoolOp_branches(fr.node.op, fr.l.blocks, 1, g.current_block, g1.nid, g1), LastV(g1))
         ])

\* The keyword of a call that names optarg_name: its index, or 0.
KeywordFor(keywords, optarg_name) ==
  IF \E j \in 1..Len(keywords) : keywords[j].arg = optarg_name
  THEN CHOOSE j \in 1..Len(keywords) :
         /\ keywords[j].arg = optarg_name
         /\ \A h \in 1..(j - 1) : keywords[h].arg # optarg_name
  ELSE 0

\* IRGenerator.visit_builtin_call for the range constructor; any other shape
\* ends in `assert False`.
visit_builtin_call(fr, g) ==
  CASE fr.pc = 0 ->
         IF fr.node.func.id = "range" /\ Len(fr.node.args) \in 1..3 /\ fr.node.keywords = <<>>
         THEN goto(g, With(fr, 1, [vals |-> <<>>]))
         ELSE raise(g)
    [] fr.pc = 1 ->
         IF Len(fr.l.vals) < Len(fr.node.args)
         THEN visit(g, With(fr, 2, <<>>), fr.node.args[Len(fr.l.vals) + 1])
         ELSE Bind([g1 \in {append(g, Ins("Alloc",
                                         CASE Len(fr.l.vals) = 1 -> <<Constant(0), fr.l.vals[1], Constant(1)>>
                                           [] Len(fr.l.vals) = 2 -> <<fr.l.vals[1], fr.l.vals[2], Constant(1)>>
                                           [] Len(fr.l.vals) = 3 -> fr.l.vals,
                                         <<>>, fr.node.type))} |->
                return(g1, LastV(g1))])
    [] fr.pc = 2 -> goto(g, With(fr, 1, [vals |-> Append(fr.l.vals, g.ret)]))

\* IRGenerator.visit_CallT (an ordinary, non-builtin call)
visit_CallT(fr, g) ==
  IF fr.node.func.type = "builtin" THEN visit_builtin_call(fr, g) ELSE
  CASE fr.pc = 0 -> visit(g, With(fr, 1, <<>>), fr.node.func)
    [] fr.pc = 1 -> goto(g, With(fr, 2, [func |-> g.ret, args |-> <<>>]))
    \* args = [self.visit(arg) for arg in node.args]
    [] fr.pc = 2 ->
         IF Len(fr.l.args) < Len(fr.node.args)
         THEN visit(g, With(fr, 3, <<>>), fr.node.args[Len(fr.l.args) + 1])
         ELSE goto(g, With(fr, 4, [index |-> 0]))
    [] fr.pc = 3 -> goto(g, With(fr, 2, [args |-> Append(fr.l.args, g.ret)]))
    \* for index, optarg_name in enumerate(typ.optargs)
    [] fr.pc = 4 ->
         IF fr.l.index >= Len(fr.node.ftype.optargs) THEN goto(g, With(fr, 6, <<>>))
         ELSE IF Len(fr.node.ftype.args) + fr.l.index < Len(fr.l.args)
         THEN goto(g, With(fr, 4, [index |-> fr.l.index + 1]))
         ELSE Bind([j \in {KeywordFor(fr.node.keywords, fr.node.ftype.optargs[fr.l.index + 1])} |->
           IF j # 0
           THEN visit(g, With(fr, 5, <<>>), fr.node.keywords[j].value)
           ELSE Bind([g1 \in {append(g, Ins("Alloc", <<>>, <<>>, "option"))} |->
                  goto(g1, With(fr, 4, [index |-> fr.l.index + 1, args |-> Append(fr.l.args, LastV(g1))]))
                ])
         ])
    [] fr.pc = 5 ->
         Bind([g1 \in {append(g, Ins("Alloc", <<g.ret>>, <<>>, "option"))} |->
           goto(g1, With(fr, 4, [index |-> fr.l.index + 1, args |-> Append(fr.l.args, LastV(g1))]))
         ])
    [] fr.pc = 6 ->
         IF g.unwind_target = 0
         THEN Bind([g1 \in {append(g, Ins("Call", <<fr.l.func>> \o fr.l.args, <<>>, fr.node.type))} |->
                return(g1, LastV(g1))
              ])
         ELSE Bind([g1 \in {add_block(g, "")} |->
              Bind([g2 \in {append(g1, Ins("Invoke", <<fr.l.func>> \o fr.l.args,
                                           <<NewBlock(g1), g.unwind_target>>, fr.node.type))} |->
                return([g2 EXCEPT !.current_block = NewBlock(g1)], LastV(g2))
              ])])

\* ------------------------------------------------------- statement visitors
\* IRGenerator.visit for a list: stop after the statement that terminates the
\* current block.  pc counts the elements visited.
visit_list(fr, g) ==
  IF fr.pc > 0 /\ is_terminated(g, g.current_block) THEN return(g, None)
  ELSE IF fr.pc = Len(fr.node.elts) THEN return(g, None)
  ELSE visit(g, With(fr, fr.pc + 1, <<>>), fr.node.elts[fr.pc + 1])

\* A return statement that evaluates its value and emits nothing.
visit_Return_silent(fr, g) ==
  IF fr.pc = 0 /\ fr.node.hasvalue THEN visit(g, With(fr, 1, <<>>), fr.node.value)
  ELSE return(g, None)

\* IRGenerator.visit_Return
visit_Return(fr, g) ==
  IF fr.pc = 0 /\ fr.node.hasvalue THEN visit(g, With(fr, 1, <<>>), fr.node.value)
  ELSE Bind([return_value \in {IF fr.pc = 0 THEN ConstNone ELSE g.ret} |->
         IF g.return_target = 0
         THEN return(append(g, Ins("Return", <<return_value>>, <<>>, "")), None)
         ELSE return(append(append(g, Ins("SetLocal", <<g.current_private_env, return_value>>, <<>>, ".return")),
                            Ins("Branch", <<>>, <<g.return_target>>, "")), None)
       ])

\* IRGenerator.visit_Expr
visit_Expr(fr, g) ==
  IF fr.pc = 0 THEN visit(g, With(fr, 1, <<>>), fr.node.value) ELSE return(g, None)

\* IRGenerator.visit_AugAssign: its first statement reads the name `target`,
\* which is not defined, and raises NameError.
visit_AugAssign(fr, g) == raise(g)

\* IRGenerator.visit_Break
visit_Break(fr, g) == return(append(g, Ins("Branch", <<>>, <<g.break_target>>, "")), None)

\* IRGenerator.visit_Continue
visit_Continue(fr, g) == return(append(g, Ins("Branch", <<>>, <<g.continue_target>>, "")), None)

\* IRGenerator.visit_Raise
visit_Raise(fr, g) ==
  IF fr.pc = 0 THEN visit(g, With(fr, 1, <<>>), fr.node.exc)
  ELSE return(append(g, Ins("Raise", <<g.ret>>, <<>>, "")), None)

\* `if not block.is_terminated(): block.append(ir.Branch(target))`
branch_if_open(g, block, target) ==
  IF ~is_terminated(g, block)
  THEN BasicBlock_append(g, block, Ins("Branch", <<>>, <<target>>, ""), 0)
  ELSE g

\* IRGenerator.visit_If
visit_If(fr, g) ==
  CASE fr.pc = 0 -> visit(g, With(fr, 1, <<>>), fr.node.test)
    [] fr.pc = 1 ->
         Bind([g1 \in {add_block(g, "")} |->
           visit([g1 EXCEPT !.current_block = NewBlock(g1)],
                 With(fr, 2, [cond |-> g.ret, head |-> g.current_block, if_true |-> NewBlock(g1)]),
                 List(fr.node.body))
         ])
    [] fr.pc = 2 ->
         IF any(fr.node.orelse)
         THEN Bind([g1 \in {add_block(g, "")} |->
                visit([g1 EXCEPT !.current_block = NewBlock(g1)],
                      With(fr, 3, [if_false |-> NewBlock(g1)]),
                      List(fr.node.orelse))
              ])
         ELSE goto(g, With(fr, 3, <<>>))
    [] fr.pc = 3 ->
         Bind([g1 \in {add_block(g, "")} |->
         Bind([tail \in {NewBlock(g1)} |->
         Bind([g2 \in {branch_if_open([g1 EXCEPT !.current_block = tail], fr.l.if_true, tail)} |->
           IF any(fr.node.orelse)
           THEN return(BasicBlock_append(branch_if_open(g2, fr.l.if_false, tail), fr.l.head,
                         Ins("BranchIf", <<fr.l.cond>>, <<fr.l.if_true, fr.l.if_false>>, ""), 0), None)
           ELSE return(BasicBlock_append(g2, fr.l.head,
                         Ins("BranchIf", <<fr.l.cond>>, <<fr.l.if_true, tail>>, ""), 0), None)
         ])])])

\* The finally clause of visit_While.  It reads old_break first: when that is
\* not bound yet the clause raises and restores nothing.
While_finally(fr, g) ==
  IF "old_break" \in DOMAIN fr.l
  THEN [g EXCEPT !.break_target = fr.l.old_break, !.continue_target = fr.l.old_continue]
  ELSE raise(g)

\* IRGenerator.visit_While
visit_While(fr, g) ==
  CASE fr.pc = 0 ->
         Bind([g1 \in {add_block(g, "while.head")} |->
         Bind([head \in {NewBlock(g1)} |->
           visit([append(g1, Ins("Branch", <<>>, <<head>>, ""))
                    EXCEPT !.current_block = head, !.continue_target = head],
                 With(fr, 1, [head |-> head, old_continue |-> g.continue_target]),
                 fr.node.test)
         ])])
    [] fr.pc = 1 ->
         Bind([g1 \in {add_block(g, "while.break")} |->
         Bind([g2 \in {add_block([g1 EXCEPT !.break_target = NewBlock(g1)], "while.body")} |->
           visit([g2 EXCEPT !.current_block = NewBlock(g2)],
                 With(fr, 2, [cond |-> g.ret, break_block |-> NewBlock(g1),
                              old_break |-> g.break_target, body |-> NewBlock(g2)]),
                 List(fr.node.body))
         ])])
    [] fr.pc = 2 ->
         IF any(fr.node.orelse)
         THEN Bind([g1 \in {add_block(g, "while.else")} |->
                visit([g1 EXCEPT !.current_block = NewBlock(g1)],
                      With(fr, 3, [else_tail |-> NewBlock(g1)]),
                      List(fr.node.orelse))
              ])
         ELSE goto(g, With(fr, 3, <<>>))
    [] fr.pc = 3 ->
         Bind([g1 \in {add_block(g, "while.tail")} |->
         Bind([tail \in {NewBlock(g1)} |->
         Bind([g2 \in {IF any(fr.node.orelse)
                       THEN branch_if_open([g1 EXCEPT !.current_block = tail], fr.l.else_tail, tail)
                       ELSE [g1 EXCEPT !.current_block = tail]} |->
         Bind([else_tail \in {IF any(fr.node.orelse) THEN fr.l.else_tail ELSE tail} |->
         Bind([g3 \in {BasicBlock_append(g2, fr.l.head,
                         Ins("BranchIf", <<fr.l.cond>>, <<fr.l.body, else_tail>>, ""), 0)} |->
           return(While_finally(fr, BasicBlock_append(branch_if_open(g3, fr.l.body, fr.l.head), fr.l.break_block,
                                            Ins("Branch", <<>>, <<tail>>, ""), 0)), None)
         ])])])])])

\* The finally clauses of visit_For: the inner one when the visit of the
\* target (called before pc 2) raised, then the outer one, which reads
\* old_break first and raises when that is not bound yet.
For_finally(fr, g) ==
  IF "old_break" \in DOMAIN fr.l
  THEN [g EXCEPT !.current_assign = IF g.failed /\ fr.pc = 2 THEN None ELSE @,
                 !.break_target = fr.l.old_break, !.continue_target = fr.l.old_continue]
  ELSE raise(g)

\* IRGenerator._iterable_len (typ: the type of the iterable); the length is the
\* instruction created last.
iterable_len(g, value, typ) ==
  IF typ = "list" THEN append(g, Ins("Builtin", <<value>>, <<>>, "len"))
  ELSE Bind([g1 \in {append(g, Ins("GetAttr", <<value>>, <<>>, "start"))} |->
       Bind([g2 \in {append(g1, Ins("GetAttr", <<value>>, <<>>, "stop"))} |->
       Bind([g3 \in {append(g2, Ins("GetAttr", <<value>>, <<>>, "step"))} |->
       Bind([g4 \in {append(g3, Ins("BinaryOp", <<LastV(g2), LastV(g1)>>, <<>>, "Sub"))} |->
         append(g4, Ins("BinaryOp", <<LastV(g4), LastV(g3)>>, <<>>, "FloorDiv"))
       ])])])])

\* IRGenerator._iterable_get; the element is the instruction created last.
iterable_get(g, value, typ, index) ==
  IF typ = "list" THEN append(g, Ins("GetElem", <<value, index>>, <<>>, ""))
  ELSE Bind([g1 \in {append(g, Ins("GetAttr", <<value>>, <<>>, "start"))} |->
       Bind([g2 \in {append(g1, Ins("GetAttr", <<value>>, <<>>, "step"))} |->
       Bind([g3 \in {append(g2, Ins("BinaryOp", <<LastV(g2), index>>, <<>>, "Mult"))} |->
         append(g3, Ins("BinaryOp", <<LastV(g1), LastV(g3)>>, <<>>, "Add"))
       ])])])

\* IRGenerator.visit_For, from `head = self.add_block("for.head")` to the
\* visit of the target.
For_head(fr, g, iterable, length) ==
  Bind([g1 \in {add_block(g, "for.head")} |->
  Bind([head \in {NewBlock(g1)} |->
  Bind([g2 \in {append([append(g1, Ins("Branch", <<>>, <<head>>, "")) EXCEPT !.current_block = head],
                       Ins("Phi", <<>>, <<>>, ""))} |->
  Bind([phi \in {LastV(g2)} |->
  Bind([g3 \in {append(add_incoming(g2, head, phi.n, Constant(0), head),
                       Ins("Compare", <<phi, length>>, <<>>, "Lt"))} |->
  Bind([g4 \in {add_block(g3, "for.break")} |->
  Bind([g5 \in {add_block([g4 EXCEPT !.break_target = NewBlock(g4)], "for.continue")} |->
  Bind([continue_block \in {NewBlock(g5)} |->
  Bind([g6 \in {append([g5 EXCEPT !.continue_target = continue_block, !.current_block = continue_block],
                       Ins("BinaryOp", <<phi, Constant(1)>>, <<>>, "Add"))} |->
  Bind([g7 \in {add_block(append(add_incoming(g6, head, phi.n, LastV(g6), continue_block),
                                 Ins("Branch", <<>>, <<head>>, "")),
                          "for.body")} |->
  Bind([g8 \in {iterable_get([g7 EXCEPT !.current_block = NewBlock(g7)], iterable,
                             fr.node.iter.type, phi)} |->
    visit([g8 EXCEPT !.current_assign = LastV(g8)],
          With(fr, 2, [head |-> head, cond |-> LastV(g3), break_block |-> NewBlock(g4),
                       old_break |-> g3.break_target, continue_block |-> continue_block,
                       old_continue |-> g4.continue_target, body |-> NewBlock(g7)]),
          fr.node.target)
  ])])])])])])])])])])])

\* IRGenerator.visit_For
visit_For(fr, g) ==
  CASE fr.pc = 0 -> visit(g, With(fr, 1, <<>>), fr.node.iter)
    [] fr.pc = 1 ->
         Bind([g1 \in {iterable_len(g, g.ret, fr.node.iter.type)} |->
           For_head(fr, g1, g.ret, LastV(g1))])
    \* finally: self.current_assign = None
    [] fr.pc = 2 -> visit([g EXCEPT !.current_assign = None], With(fr, 3, <<>>), List(fr.node.body))
    [] fr.pc = 3 ->
         IF any(fr.node.orelse)
         THEN Bind([g1 \in {add_block(g, "for.else")} |->
                visit([g1 EXCEPT !.current_block = NewBlock(g1)],
                      With(fr, 4, [else_tail |-> NewBlock(g1)]),
                      List(fr.node.orelse))
              ])
         ELSE goto(g, With(fr, 4, <<>>))
    [] fr.pc = 4 ->
         Bind([g1 \in {add_block(g, "for.tail")} |->
         Bind([tail \in {NewBlock(g1)} |->
         Bind([g2 \in {IF any(fr.node.orelse)
                       THEN branch_if_open([g1 EXCEPT !.current_block = tail], fr.l.else_tail, tail)
                       ELSE [g1 EXCEPT !.current_block = tail]} |->
         Bind([else_tail \in {IF any(fr.node.orelse) THEN fr.l.else_tail ELSE tail} |->
         Bind([g3 \in {BasicBlock_append(g2, fr.l.head,
                         Ins("BranchIf", <<fr.l.cond>>, <<fr.l.body, else_tail>>, ""), 0)} |->
           return(For_finally(fr, BasicBlock_append(branch_if_open(g3, fr.l.body, fr.l.continue_block), fr.l.break_block,
                                            Ins("Branch", <<>>, <<tail>>, ""), 0)), None)
         ])])])])])

\* IRGenerator.visit_Try, `for handler in handlers: if not handler.is_terminated()`
\* (k is the continuation slot of a try with a finally clause, else None)
RECURSIVE Try_handler_tails(_, _, _, _, _)
Try_handler_tails(handlers, i, g, k, tail) ==
  IF i > Len(handlers) THEN g
  ELSE IF is_terminated(g, handlers[i]) THEN Try_handler_tails(handlers, i + 1, g, k, tail)
  ELSE Try_handler_tails(handlers, i + 1,
         BasicBlock_append(
           IF k # None
           THEN BasicBlock_append(g, handlers[i], Ins("SetLocal", <<k, BlockV(tail)>>, <<>>, ".k"), 0)
           ELSE g,
           handlers[i], Ins("Branch", <<>>, <<tail>>, ""), 0),
         k, tail)

\* IRGenerator.visit_Try, from `tail = self.add_block("try.tail")`
Try_tail(fr, g) ==
  Bind([final \in {any(fr.node.finalbody)} |->
  Bind([g1 \in {add_block(g, "try.tail")} |->
  Bind([tail \in {NewBlock(g1)} |->
  Bind([g2 \in {IF final /\ g1.break_target # 0
                THEN BasicBlock_append(g1, fr.l.break_proxy, Ins("Branch", <<>>, <<fr.l.finalizer>>, ""), 0)
                ELSE g1} |->
  Bind([g3 \in {IF final /\ g2.continue_target # 0
                THEN BasicBlock_append(g2, fr.l.continue_proxy, Ins("Branch", <<>>, <<fr.l.finalizer>>, ""), 0)
                ELSE g2} |->
  Bind([g4 \in {IF final
                THEN BasicBlock_append(g3, fr.l.return_proxy, Ins("Branch", <<>>, <<fr.l.finalizer>>, ""), 0)
                ELSE g3} |->
  Bind([g5 \in {IF is_terminated(g4, fr.l.body) THEN g4
                ELSE IF final
                THEN Try_handler_tails(fr.l.handlers, 1,
                       BasicBlock_append(
                         BasicBlock_append(g4, fr.l.body,
                                           Ins("SetLocal", <<fr.l.final_state, BlockV(tail)>>, <<>>, ".k"), 0),
                         fr.l.body, Ins("Branch", <<>>, <<fr.l.finalizer>>, ""), 0),
                       fr.l.final_state, tail)
                ELSE Try_handler_tails(fr.l.handlers, 1,
                       BasicBlock_append(g4, fr.l.body, Ins("Branch", <<>>, <<tail>>, ""), 0),
                       None, tail)} |->
    IF predecessors(g5, tail) # {}
    THEN return([g5 EXCEPT !.current_block = tail], None)
    ELSE return(Function_remove(g5, tail), None)
  ])])])])])])])

\* A try statement that leaves the unwind target redirected to its dispatch
\* block after the body has been lowered.
Try_finally_keep(fr, g) == g

\* The finally clause of visit_Try, around the visit of the body:
\* self.unwind_target = old_unwind
Try_finally(fr, g) == [g EXCEPT !.unwind_target = fr.l.old_unwind]

\* A try statement that keeps its proxy blocks as targets after the body.
Try_keep_targets(fr, g) == g

\* IRGenerator.visit_Try, `if any(node.finalbody):` after the body and the
\* else clause: the targets saved on entry come back.
Try_restore_targets(fr, g) ==
  [g EXCEPT !.break_target = IF @ # 0 THEN fr.l.old_break ELSE @,
            !.continue_target = IF @ # 0 THEN fr.l.old_continue ELSE @,
            !.return_target = fr.l.old_return]

\* The finally clause of the try statement of frame fr is about to be
\* lowered: `finals` records the break, continue and return targets on entry
\* of visit_Try, the targets now, and the proxy blocks of the statement.
Try_finalbody(fr, g) ==
  [g EXCEPT !.finals = @ \cup
     {[loc |-> fr.node.loc,
       entry |-> <<fr.ctx[5], fr.ctx[6], fr.ctx[7]>>,
       targets |-> <<g.break_target, g.continue_target, g.return_target>>,
       proxies |-> {fr.l.return_proxy}
                     \cup (IF "break_proxy" \in DOMAIN fr.l THEN {fr.l.break_proxy} ELSE {})
                     \cup (IF "continue_proxy" \in DOMAIN fr.l THEN {fr.l.continue_proxy} ELSE {})]}]

\* IRGenerator.visit_Try
visit_Try(fr, g) ==
  CASE fr.pc = 0 ->
         Bind([g1 \in {add_block(g, "try.dispatch")} |->
         Bind([g2 \in {BasicBlock_append(g1, NewBlock(g1), Ins("LandingPad", <<>>, <<>>, ""), 0)} |->
           IF any(fr.node.finalbody)
           THEN Bind([g3 \in {append(g2, Ins("Alloc", <<>>, <<>>, ".k"))} |->
                  goto(g3, With(fr, 1, [dispatcher |-> NewBlock(g1), landingpad |-> LastV(g2),
                                        final_state |-> LastV(g3), final_targets |-> <<>>]))
                ])
           ELSE goto(g2, With(fr, 4, [dispatcher |-> NewBlock(g1), landingpad |-> LastV(g2)]))
         ])])
    \* if self.break_target is not None
    [] fr.pc = 1 ->
         IF g.break_target # 0
         THEN Bind([g1 \in {add_block(g, "try.break")} |->
                goto(BasicBlock_append([g1 EXCEPT !.break_target = NewBlock(g1)], NewBlock(g1),
                       Ins("SetLocal", <<fr.l.final_state, BlockV(g.break_target)>>, <<>>, ".k"), 0),
                     With(fr, 2, [break_proxy |-> NewBlock(g1), old_break |-> g.break_target,
                                  final_targets |-> Append(fr.l.final_targets, g.break_target)]))
              ])
         ELSE goto(g, With(fr, 2, <<>>))
    \* if self.continue_target is not None
    [] fr.pc = 2 ->
         IF g.continue_target # 0
         THEN Bind([g1 \in {add_block(g, "try.continue")} |->
                goto(BasicBlock_append([g1 EXCEPT !.continue_target = NewBlock(g1)], NewBlock(g1),
                       Ins("SetLocal", <<fr.l.final_state, BlockV(g.continue_target)>>, <<>>, ".k"), 0),
                     With(fr, 3, [continue_proxy |-> NewBlock(g1), old_continue |-> g.continue_target,
                                  final_targets |-> Append(fr.l.final_targets, g.continue_target)]))
              ])
         ELSE goto(g, With(fr, 3, <<>>))
    \* return_proxy = self.add_block("try.return")
    [] fr.pc = 3 ->
         Bind([g1 \in {add_block(g, "try.return")} |->
         Bind([return_proxy \in {NewBlock(g1)} |->
           IF g.return_target # 0
           THEN goto(BasicBlock_append([g1 EXCEPT !.return_target = return_proxy], return_proxy,
                       Ins("SetLocal", <<fr.l.final_state, BlockV(g.return_target)>>, <<>>, ".k"), 0),
                     With(fr, 4, [return_proxy |-> return_proxy, old_return |-> g.return_target,
                                  final_targets |-> Append(fr.l.final_targets, g.return_target)]))
           ELSE Bind([g2 \in {add_block([g1 EXCEPT !.return_target = return_proxy], "try.doreturn")} |->
                Bind([return_action \in {NewBlock(g2)} |->
                Bind([g3 \in {BasicBlock_append(g2, return_action,
                                Ins("GetLocal", <<g2.current_private_env>>, <<>>, ".return"), 0)} |->
                Bind([g4 \in {BasicBlock_append(g3, return_action, Ins("Return", <<LastV(g3)>>, <<>>, ""), 0)} |->
                  goto(BasicBlock_append(g4, return_proxy,
                         Ins("SetLocal", <<fr.l.final_state, BlockV(return_action)>>, <<>>, ".k"), 0),
                       With(fr, 4, [return_proxy |-> return_proxy, old_return |-> g.return_target,
                                    final_targets |-> Append(fr.l.final_targets, return_action)]))
                ])])])])
         ])])
    \* body = self.add_block("try.body"); the body, with the unwind target
    \* redirected to the dispatcher
    [] fr.pc = 4 ->
         Bind([g1 \in {add_block(g, "try.body")} |->
           visit([append(g1, Ins("Branch", <<>>, <<NewBlock(g1)>>, ""))
                    EXCEPT !.current_block = NewBlock(g1), !.unwind_target = fr.l.dispatcher],
                 With(fr, 5, [old_unwind |-> g.unwind_target]),
                 List(fr.node.body))
         ])
    [] fr.pc = 5 -> visit(Try_finally(fr, g), With(fr, 6, <<>>), List(fr.node.orelse))
    \* body = self.current_block; the old targets come back
    [] fr.pc = 6 ->
         IF any(fr.node.finalbody)
         THEN goto(Try_restore_targets(fr, g), With(fr, 7, [body |-> g.current_block, handlers |-> <<>>]))
         ELSE goto(g, With(fr, 7, [body |-> g.current_block, handlers |-> <<>>]))
    \* for handler_node in node.handlers
    [] fr.pc = 7 ->
         IF Len(fr.l.handlers) = Len(fr.node.handlers) THEN goto(g, With(fr, 8, <<>>))
         ELSE Bind([handler_node \in {fr.node.handlers[Len(fr.l.handlers) + 1]} |->
              Bind([g1 \in {add_block(g, "handler")} |->
              Bind([handler \in {NewBlock(g1)} |->
              Bind([g2 \in {add_clause([g1 EXCEPT !.current_block = handler], fr.l.dispatcher, handler)} |->
              Bind([g3 \in {IF handler_node.name # ""
                            THEN append(g2, Ins("Builtin", <<fr.l.landingpad>>, <<>>, "exncast"))
                            ELSE g2} |->
                visit(IF handler_node.name # "" THEN set_local(g3, handler_node.name, LastV(g3)) ELSE g3,
                      With(fr, 7, [handlers |-> Append(fr.l.handlers, handler)]),
                      List(handler_node.body))
              ])])])])])
    \* if any(node.finalbody): finalizer = self.add_block("finally")
    [] fr.pc = 8 ->
         IF any(fr.node.finalbody)
         THEN Bind([g1 \in {add_block(Try_finalbody(fr, g), "finally")} |->
                visit([g1 EXCEPT !.current_block = NewBlock(g1)],
                      With(fr, 9, [finalizer |-> NewBlock(g1)]),
                      List(fr.node.finalbody))
              ])
         ELSE goto(g, With(fr, 10, <<>>))
    [] fr.pc = 9 ->
         IF ~is_terminated(g, g.current_block)
         THEN Bind([g1 \in {append(g, Ins("GetLocal", <<fr.l.final_state>>, <<>>, ".k"))} |->
                goto(append(g1, Ins("IndirectBranch", <<LastV(g1)>>, fr.l.final_targets, "")),
                     With(fr, 10, <<>>))
              ])
         ELSE goto(g, With(fr, 10, <<>>))
    [] fr.pc = 10 -> Try_tail(fr, g)

\* IRGenerator.visit_function, `for index, arg_name in enumerate(typ.args)`
RECURSIVE function_args(_, _, _, _)
function_args(names, index, env, g) ==
  IF index > Len(names) THEN g
  ELSE function_args(names, index + 1, env,
                     append(g, Ins("SetLocal", <<env, ArgV(index)>>, <<>>, names[index])))

\* The finally clause of visit_function.  A lambda has not replaced
\* current_private_env.
function_finally(fr, g) ==
  [g EXCEPT !.name = fr.l.old_name, !.current_function = fr.l.old_func,
            !.current_block = fr.l.old_block, !.current_globals = fr.l.old_globals,
            !.current_env = fr.l.old_env, !.current_private_env = fr.l.old_priv_env]

\* The end of a body that never lets its last block be terminated with Return.
function_end_unreachable(fr, g) ==
  IF is_terminated(g, g.current_block) THEN g
  ELSE BasicBlock_append(g, g.current_block, Ins("Unreachable", <<>>, <<>>, ""), 0)

\* IRGenerator.visit_function, after `result = self.visit(node.body)`: the
\* block that is current at the end of the body is terminated if it is open.
function_end(fr, g) ==
  IF fr.node.kind = "LambdaT" THEN terminate(g, Ins("Return", <<g.ret>>, <<>>, ""))
  ELSE IF is_terminated(g, g.current_block) THEN g
  ELSE IF fr.node.ret = "none"
  THEN BasicBlock_append(g, g.current_block, Ins("Return", <<ConstNone>>, <<>>, ""), 0)
  ELSE BasicBlock_append(g, g.current_block, Ins("Unreachable", <<>>, <<>>, ""), 0)

\* The body of a module, function or lambda has been lowered: `ends` records
\* the block that is current and the instructions it holds at that moment.
body_end(fr, g) ==
  [g EXCEPT !.ends = @ \cup {[kind |-> fr.node.kind, ret |-> fr.node.ret, value |-> g.ret,
                              block |-> g.current_block,
                              insns |-> g.blocks[g.current_block].insns]}]

\* IRGenerator.visit_function without optional arguments; is_lambda is
\* node.kind = "LambdaT".  At pc 2 the local `func` of the caller holds the
\* Closure.
visit_function(fr, g) ==
  CASE fr.pc = 0 ->
         Bind([func \in {Len(g.functions) + 1} |->
         Bind([name \in {IF fr.node.kind = "LambdaT" THEN "lambda" ELSE fr.node.name} |->
         Bind([g1 \in {add_block([g EXCEPT !.name = Append(@, name),
                                           !.functions =
                                             Append(@, [name |-> Append(g.name, name),
                                                        arguments |->
                                                          <<"outerenv">> \o fr.node.args,
                                                        ret |-> fr.node.ret]),
                                           !.current_function = func], "")} |->
         Bind([g2 \in {append([g1 EXCEPT !.current_block = NewBlock(g1),
                                         !.current_globals = fr.node.globals_in_scope],
                              Ins("Alloc", <<>>, <<>>, "env"))} |->
         Bind([env \in {LastV(g2)} |->
         Bind([g3 \in {IF fr.node.kind = "LambdaT" THEN [g2 EXCEPT !.current_env = env]
                       ELSE Bind([h \in {append([g2 EXCEPT !.current_env = env],
                                                Ins("Alloc", <<>>, <<>>, "privenv"))} |->
                              [h EXCEPT !.current_private_env = LastV(h)]])} |->
         Bind([g4 \in {append(g3, Ins("SetLocal", <<env, ArgV(0)>>, <<>>, ".outer"))} |->
           visit(function_args(fr.node.args, 1, env, g4),
                 With(fr, 1, [old_name |-> g.name, func |-> func, old_func |-> g.current_function,
                              old_block |-> g.current_block, old_globals |-> g.current_globals,
                              old_env |-> g.current_env, old_priv_env |-> g.current_private_env]),
                 IF fr.node.kind = "LambdaT" THEN fr.node.body ELSE List(fr.node.body))
         ])])])])])])])
    [] fr.pc = 1 ->
         Bind([g2 \in {function_finally(fr, function_end(fr, body_end(fr, g)))} |->
         Bind([g3 \in {append(g2, Ins("Closure", <<FuncV(fr.l.func), g2.current_env>>, <<>>, ""))} |->
           goto(g3, With(fr, 2, [func |-> LastV(g3)]))
         ])])

\* IRGenerator.visit_FunctionDefT
visit_FunctionDefT(fr, g) ==
  IF fr.pc < 2 THEN visit_function(fr, g)
  ELSE return(set_local(g, fr.node.name, fr.l.func), None)

\* IRGenerator.visit_LambdaT
visit_LambdaT(fr, g) ==
  IF fr.pc < 2 THEN visit_function(fr, g) ELSE return(g, fr.l.func)

\* The finally clause of visit_ModuleT.
ModuleT_finally(fr, g) ==
  [g EXCEPT !.current_function = fr.l.old_func, !.current_block = fr.l.old_block,
            !.current_env = fr.l.old_env, !.current_private_env = fr.l.old_priv_env]

\* IRGenerator.visit_ModuleT
visit_ModuleT(fr, g) ==
  CASE fr.pc = 0 ->
         Bind([func \in {Len(g.functions) + 1} |->
         Bind([g1 \in {add_block([g EXCEPT !.current_loc = 0,
                                           !.functions = Append(@, [name |-> Append(g.name, "__modinit__"),
                                                                    arguments |-> <<>>, ret |-> "none"]),
                                           !.current_function = func], "entry")} |->
         Bind([g2 \in {append([g1 EXCEPT !.current_block = NewBlock(g1)], Ins("Alloc", <<>>, <<>>, "env"))} |->
         Bind([g3 \in {append([g2 EXCEPT !.current_env = LastV(g2)], Ins("Alloc", <<>>, <<>>, "privenv"))} |->
           visit([g3 EXCEPT !.current_private_env = LastV(g3)],
                 With(fr, 1, [func |-> func, old_func |-> g.current_function, old_block |-> g.current_block,
                              old_env |-> g.current_env, old_priv_env |-> g.current_private_env]),
                 List(fr.node.body))
         ])])])])
    [] fr.pc = 1 ->
         return(ModuleT_finally(fr, terminate(body_end(fr, g), Ins("Return", <<ConstNone>>, <<>>, ""))),
                FuncV(fr.l.func))

\* --------------------------------------------- assignment and subscripts
\* IRGenerator.visit_UnaryOpT for a numeric operator
visit_UnaryOpT(fr, g) ==
  IF fr.pc = 0 THEN visit(g, With(fr, 1, <<>>), fr.node.operand)
  ELSE Bind([g1 \in {append(g, Ins("UnaryOp", <<g.ret>>, <<>>, fr.node.op))} |-> return(g1, LastV(g1))])

\* The finally clause of visit_Assign.
Assign_finally(fr, g) == [g EXCEPT !.current_assign = None]

\* IRGenerator.visit_Assign; from pc 2 on, pc - 2 targets have been visited.
visit_Assign(fr, g) ==
  CASE fr.pc = 0 -> visit(g, With(fr, 1, <<>>), fr.node.value)
    [] fr.pc = 1 ->
         IF g.ret = None THEN raise(g)
         ELSE goto([g EXCEPT !.current_assign = g.ret], With(fr, 2, <<>>))
    [] OTHER ->
         IF fr.pc - 2 < Len(fr.node.targets)
         THEN visit(g, With(fr, fr.pc + 1, <<>>), fr.node.targets[fr.pc - 1])
         ELSE return(Assign_finally(fr, g), None)

\* IRGenerator._map_index: the generator and the mapped index.
map_index(g, length, index) ==
  Bind([g1 \in {append(g, Ins("Compare", <<index, Constant(0)>>, <<>>, "Lt"))} |->
  Bind([g2 \in {append(g1, Ins("BinaryOp", <<length, index>>, <<>>, "Add"))} |->
  Bind([g3 \in {append(g2, Ins("Select", <<LastV(g1), LastV(g2), index>>, <<>>, ""))} |->
  Bind([mapped_index \in {LastV(g3)} |->
  Bind([g4 \in {append(g3, Ins("Compare", <<mapped_index, Constant(0)>>, <<>>, "GtE"))} |->
  Bind([g5 \in {append(g4, Ins("Compare", <<mapped_index, length>>, <<>>, "Lt"))} |->
  Bind([g6 \in {append(g5, Ins("Select", <<LastV(g4), LastV(g5), ConstBool(FALSE)>>, <<>>, ""))} |->
  Bind([g7 \in {add_block(g6, "")} |->
  Bind([out_of_bounds_block \in {NewBlock(g7)} |->
  Bind([g8 \in {BasicBlock_append(g7, out_of_bounds_block, Ins("Alloc", <<>>, <<>>, "IndexError"), 0)} |->
  Bind([g9 \in {BasicBlock_append(g8, out_of_bounds_block, Ins("Raise", <<LastV(g8)>>, <<>>, ""), 0)} |->
  Bind([g10 \in {add_block(g9, "")} |->
  Bind([in_bounds_block \in {NewBlock(g10)} |->
    [g |-> [append(g10, Ins("BranchIf", <<LastV(g6)>>, <<in_bounds_block, out_of_bounds_block>>, ""))
              EXCEPT !.current_block = in_bounds_block],
     val |-> mapped_index]
  ])])])])])])])])])])])])])

\* IRGenerator._make_check, with exn_gen allocating an exception of class exn.
make_check(g, cond, exn) ==
  Bind([cond_block \in {g.current_block} |->
  Bind([g1 \in {add_block(g, "")} |->
  Bind([body_block \in {NewBlock(g1)} |->
  Bind([g2 \in {append([g1 EXCEPT !.current_block = body_block], Ins("Alloc", <<>>, <<>>, exn))} |->
  Bind([g3 \in {add_block(append(g2, Ins("Raise", <<LastV(g2)>>, <<>>, "")), "")} |->
  Bind([tail_block \in {NewBlock(g3)} |->
    BasicBlock_append([g3 EXCEPT !.current_block = tail_block], cond_block,
                      Ins("BranchIf", <<cond>>, <<tail_block, body_block>>, ""), 0)
  ])])])])])])

\* IRGenerator._make_loop up to the call of cond_gen: the head block is the
\* current block and the Phi the instruction created last.
make_loop_head(g, init) ==
  Bind([init_block \in {g.current_block} |->
  Bind([g1 \in {add_block(g, "")} |->
  Bind([head_block \in {NewBlock(g1)} |->
  Bind([g2 \in {BasicBlock_append([g1 EXCEPT !.current_block = head_block], init_block,
                                  Ins("Branch", <<>>, <<head_block>>, ""), 0)} |->
  Bind([g3 \in {append(g2, Ins("Phi", <<>>, <<>>, ""))} |->
    add_incoming(g3, head_block, g3.nid, init, init_block)
  ])])])])])

\* IRGenerator._make_loop between cond_gen and body_gen: the body block.
make_loop_body(g) ==
  Bind([g1 \in {add_block(g, "")} |-> [g1 EXCEPT !.current_block = NewBlock(g1)]])

\* IRGenerator._make_loop after body_gen has returned the value `body`.
make_loop_tail(g, head_block, body_block, phi, cond, body) ==
  Bind([g1 \in {append(g, Ins("Branch", <<>>, <<head_block>>, ""))} |->
  Bind([g2 \in {add_block(add_incoming(g1, head_block, phi.n, body, g.current_block), "")} |->
  Bind([tail_block \in {NewBlock(g2)} |->
    BasicBlock_append([g2 EXCEPT !.current_block = tail_block], head_block,
                      Ins("BranchIf", <<cond>>, <<body_block, tail_block>>, ""), 0)
  ])])])

\* body_gen of the slice case of visit_SubscriptT; the next index is the
\* instruction created last.
Slice_body_gen(g, l, other_value, typ, other_index) ==
  Bind([g1 \in {append(g, Ins("BinaryOp", <<l.step, other_index>>, <<>>, "Mult"))} |->
  Bind([g2 \in {append(g1, Ins("BinaryOp", <<l.min_index, LastV(g1)>>, <<>>, "Add"))} |->
  Bind([index \in {LastV(g2)} |->
  Bind([g3 \in {IF g.current_assign = None
                THEN Bind([h \in {iterable_get(g2, l.value, typ, index)} |->
                       append(h, Ins("SetElem", <<other_value, other_index, LastV(h)>>, <<>>, ""))])
                ELSE Bind([h \in {append(g2, Ins("GetElem", <<g.current_assign, other_index>>, <<>>, ""))} |->
                       append(h, Ins("SetElem", <<l.value, index, LastV(h)>>, <<>>, ""))])} |->
    append(g3, Ins("BinaryOp", <<other_index, Constant(1)>>, <<>>, "Add"))
  ])])])])

\* The slice case of visit_SubscriptT from `unstepped_size = ...` on.
Slice_copy(fr, g) ==
  Bind([g1 \in {append(g, Ins("BinaryOp", <<fr.l.mapped_max_index, fr.l.mapped_min_index>>, <<>>, "Sub"))} |->
  Bind([g2 \in {append(g1, Ins("BinaryOp", <<LastV(g1), fr.l.step>>, <<>>, "FloorDiv"))} |->
  Bind([slice_size \in {LastV(g2)} |->
  Bind([g3 \in {append(g2, Ins("Compare", <<slice_size, fr.l.length>>, <<>>, "Eq"))} |->
  Bind([g4 \in {make_check(g3, LastV(g3), "ValueError")} |->
  Bind([g5 \in {IF g.current_assign = None
                THEN append(g4, Ins("Alloc", <<slice_size>>, <<>>, fr.node.value.type))
                ELSE g4} |->
  Bind([other_value \in {IF g.current_assign = None THEN LastV(g5) ELSE g.current_assign} |->
  Bind([g6 \in {make_loop_head(g5, Constant(0))} |->
  Bind([phi \in {LastV(g6)} |->
  Bind([head_block \in {g6.current_block} |->
  Bind([g7 \in {append(g6, Ins("Compare", <<phi, slice_size>>, <<>>, "Lt"))} |->
  Bind([g8 \in {make_loop_body(g7)} |->
  Bind([g9 \in {Slice_body_gen(g8, fr.l, other_value, fr.node.value.type, phi)} |->
    make_loop_tail(g9, head_block, g8.current_block, phi, LastV(g7), LastV(g9))
  ])])])])])])])])])])])])])

\* The finally clause of visit_SubscriptT, around the visit of node.value.
SubscriptT_finally(fr, g) == [g EXCEPT !.current_assign = fr.l.old_assign]

\* IRGenerator.visit_SubscriptT.  Reading `.type` of the None that a visit in
\* assignment mode returns raises AttributeError.
visit_SubscriptT(fr, g) ==
  CASE fr.pc = 0 ->
         visit([g EXCEPT !.current_assign = None], With(fr, 1, [old_assign |-> g.current_assign]),
               fr.node.value)
    [] fr.pc = 1 ->
         Bind([g1 \in {SubscriptT_finally(fr, g)} |->
           IF fr.node.slice.kind = "Index"
           THEN visit(g1, With(fr, 2, [value |-> g.ret]), fr.node.slice.value)
           ELSE Bind([g2 \in {iterable_len(g1, g.ret, fr.node.value.type)} |->
                  IF fr.node.slice.haslower
                  THEN visit(g2, With(fr, 3, [value |-> g.ret, length |-> LastV(g2)]), fr.node.slice.lower)
                  ELSE goto(g2, With(fr, 4, [value |-> g.ret, length |-> LastV(g2),
                                             min_index |-> Constant(0)]))
                ])
         ])
    \* Index
    [] fr.pc = 2 ->
         IF g.ret = None THEN raise(g)
         ELSE Bind([g0 \in {iterable_len(g, fr.l.value, fr.node.value.type)} |->
              Bind([m \in {map_index(g0, LastV(g0), g.ret)} |->
                IF g.current_assign = None
                THEN Bind([g1 \in {iterable_get(m.g, fr.l.value, fr.node.value.type, m.val)} |->
                       return(g1, LastV(g1))])
                ELSE return(append(m.g, Ins("SetElem", <<fr.l.value, m.val, g.current_assign>>, <<>>, "")),
                            None)
              ])])
    \* Slice
    [] fr.pc = 3 -> goto(g, With(fr, 4, [min_index |-> g.ret]))
    [] fr.pc = 4 ->
         IF fr.l.min_index = None THEN raise(g)
         ELSE Bind([m \in {map_index(g, fr.l.length, fr.l.min_index)} |->
                IF fr.node.slice.hasupper
                THEN visit(m.g, With(fr, 5, [mapped_min_index |-> m.val]), fr.node.slice.upper)
                ELSE goto(m.g, With(fr, 6, [mapped_min_index |-> m.val, max_index |-> fr.l.length]))
              ])
    [] fr.pc = 5 -> goto(g, With(fr, 6, [max_index |-> g.ret]))
    [] fr.pc = 6 ->
         IF fr.l.max_index = None THEN raise(g)
         ELSE Bind([m \in {map_index(g, fr.l.length, fr.l.max_index)} |->
                IF fr.node.slice.hasstep
                THEN visit(m.g, With(fr, 7, [mapped_max_index |-> m.val]), fr.node.slice.step)
                ELSE goto(m.g, With(fr, 8, [mapped_max_index |-> m.val, step |-> Constant(1)]))
              ])
    [] fr.pc = 7 -> goto(g, With(fr, 8, [step |-> g.ret]))
    [] fr.pc = 8 -> IF fr.l.step = None THEN raise(g) ELSE return(Slice_copy(fr, g), None)


\* The inner body_gen of the Mult case of visit_BinOpT: one element of the
\* list is copied; the next index is the instruction created last.
Mult_copy_elt(g, lst, lst_length, result, num_index, lst_index) ==
  Bind([g1 \in {append(g, Ins("GetElem", <<lst, lst_index>>, <<>>, ""))} |->
  Bind([g2 \in {append(g1, Ins("BinaryOp", <<num_index, lst_length>>, <<>>, "Mult"))} |->
  Bind([g3 \in {append(g2, Ins("BinaryOp", <<LastV(g2), lst_index>>, <<>>, "Add"))} |->
  Bind([g4 \in {append(g3, Ins("SetElem", <<result, LastV(g2), LastV(g1)>>, <<>>, ""))} |->
    append(g4, Ins("BinaryOp", <<lst_index, Constant(1)>>, <<>>, "Add"))
  ])])])])

\* The outer body_gen of the Mult case of visit_BinOpT: the loop that copies
\* the list once, and the value the outer loop continues with.
Mult_copy_list(g, lst, lst_length, result, num_index) ==
  Bind([g1 \in {make_loop_head(g, Constant(0))} |->
  Bind([phi \in {LastV(g1)} |->
  Bind([g2 \in {append(g1, Ins("Compare", <<phi, lst_length>>, <<>>, "Lt"))} |->
  Bind([g3 \in {make_loop_body(g2)} |->
  Bind([g4 \in {Mult_copy_elt(g3, lst, lst_length, result, num_index, phi)} |->
  Bind([g5 \in {make_loop_tail(g4, g1.current_block, g3.current_block, phi, LastV(g2), LastV(g4))} |->
    append(g5, Ins("BinaryOp", <<lst_length, Constant(1)>>, <<>>, "Add"))
  ])])])])])])

\* The Mult case of visit_BinOpT from `lst_length = ...` on.
Mult_repeat(g, lst, num, typ) ==
  Bind([g1 \in {append(g, Ins("Builtin", <<lst>>, <<>>, "len"))} |->
  Bind([g2 \in {append(g1, Ins("BinaryOp", <<LastV(g1), num>>, <<>>, "Mult"))} |->
  Bind([g3 \in {append(g2, Ins("Alloc", <<LastV(g2)>>, <<>>, typ))} |->
  Bind([g4 \in {make_loop_head(g3, Constant(0))} |->
  Bind([phi \in {LastV(g4)} |->
  Bind([g5 \in {append(g4, Ins("Compare", <<phi, num>>, <<>>, "Lt"))} |->
  Bind([g6 \in {make_loop_body(g5)} |->
  Bind([g7 \in {Mult_copy_list(g6, lst, LastV(g1), LastV(g3), phi)} |->
    make_loop_tail(g7, g4.current_block, g6.current_block, phi, LastV(g5), LastV(g7))
  ])])])])])])])])

\* IRGenerator.visit_BinOpT for a numeric result and for list * int and
\* int * list, whose branch ends without a return statement.
visit_BinOpT(fr, g) ==
  CASE fr.pc = 0 -> visit(g, With(fr, 1, <<>>), fr.node.left)
    [] fr.pc = 1 -> visit(g, With(fr, 2, [lhs |-> g.ret]), fr.node.right)
    [] fr.pc = 2 ->
         IF fr.node.type = "int"
         THEN Bind([g1 \in {append(g, Ins("BinaryOp", <<fr.l.lhs, g.ret>>, <<>>, fr.node.op))} |->
                return(g1, LastV(g1))])
         ELSE IF fr.node.op # "Mult" THEN raise(g)
         ELSE IF fr.node.left.type = "list" /\ fr.node.right.type = "int"
         THEN return(Mult_repeat(g, fr.l.lhs, g.ret, fr.node.type), None)
         ELSE IF fr.node.left.type = "int" /\ fr.node.right.type = "list"
         THEN return(Mult_repeat(g, g.ret, fr.l.lhs, fr.node.type), None)
         ELSE raise(g)

\* ------------------------------------------------------------ comparisons
\* The list case of _compare_pair_order without the exit from the loop at the
\* first pair of elements that compares false.
compare_list_noexit(g, b, v) ==
  Bind([g1 \in {add_incoming(BasicBlock_append(g, b.head,
                                Ins("BranchIf", <<v.eq_length>>, <<b.loop_head, b.tail>>, ""), 0),
                              b.tail, v.phi.n, v.compare_length, b.head)} |->
  Bind([g2 \in {add_incoming(BasicBlock_append(g1, b.loop_head,
                                Ins("BranchIf", <<v.loop_cond>>, <<b.loop_body, b.tail>>, ""), 0),
                              b.tail, v.phi.n, ConstBool(TRUE), b.loop_head)} |->
    BasicBlock_append(g2, b.loop_body, Ins("Branch", <<>>, <<b.loop_body2>>, ""), 0)
  ])])

\* The list case of _compare_pair_order, the exits to the tail block: from the
\* lengths, from the end of the loop and from a pair of elements.
compare_list_exits(g, b, v) ==
  Bind([g1 \in {add_incoming(BasicBlock_append(g, b.head,
                                Ins("BranchIf", <<v.eq_length>>, <<b.loop_head, b.tail>>, ""), 0),
                              b.tail, v.phi.n, v.compare_length, b.head)} |->
  Bind([g2 \in {add_incoming(BasicBlock_append(g1, b.loop_head,
                                Ins("BranchIf", <<v.loop_cond>>, <<b.loop_body, b.tail>>, ""), 0),
                              b.tail, v.phi.n, ConstBool(TRUE), b.loop_head)} |->
    add_incoming(BasicBlock_append(g2, b.loop_body,
                   Ins("BranchIf", <<v.body_result>>, <<b.loop_body2, b.tail>>, ""), 0),
                 b.tail, v.phi.n, v.body_result, b.loop_body)
  ])])

\* IRGenerator._compare_pair_inclusion for a haystack that is a range (the
\* fast path): the generator and the result.
compare_pair_inclusion(g, op, needle, haystack) ==
  Bind([g1 \in {append(g, Ins("GetAttr", <<haystack>>, <<>>, "start"))} |->
  Bind([g2 \in {append(g1, Ins("GetAttr", <<haystack>>, <<>>, "stop"))} |->
  Bind([g3 \in {append(g2, Ins("GetAttr", <<haystack>>, <<>>, "step"))} |->
  Bind([g4 \in {append(g3, Ins("Compare", <<needle, LastV(g1)>>, <<>>, "GtE"))} |->
  Bind([g5 \in {append(g4, Ins("Compare", <<needle, LastV(g2)>>, <<>>, "Lt"))} |->
  Bind([g6 \in {append(g5, Ins("BinaryOp", <<needle, LastV(g1)>>, <<>>, "Sub"))} |->
  Bind([g7 \in {append(g6, Ins("BinaryOp", <<LastV(g6), LastV(g3)>>, <<>>, "Mod"))} |->
  Bind([g8 \in {append(g7, Ins("Compare", <<LastV(g7), Constant(0)>>, <<>>, "Eq"))} |->
  Bind([g9 \in {append(g8, Ins("Select", <<LastV(g4), LastV(g5), ConstBool(FALSE)>>, <<>>, ""))} |->
  Bind([g10 \in {append(g9, Ins("Select", <<LastV(g9), LastV(g8), ConstBool(FALSE)>>, <<>>, ""))} |->
    IF op = "NotIn"
    THEN Bind([g11 \in {append(g10, Ins("Select", <<LastV(g10), ConstBool(FALSE), ConstBool(TRUE)>>, <<>>, ""))} |->
           [g |-> g11, val |-> LastV(g11)]])
    ELSE [g |-> g10, val |-> LastV(g10)]
  ])])])])])])])])])])

\* IRGenerator._compare_pair for Eq, NotEq, Lt, LtE, Gt, GtE, which is
\* IRGenerator._compare_pair_order: the generator and the result.  typ is the
\* type of both operands, elts the number of elements of a tuple type; the
\* elements of lists and tuples are numbers.
RECURSIVE compare_pair(_, _, _, _, _, _)
compare_pair(g, op, lhs, rhs, typ, elts) ==
  IF op \in {"In", "NotIn"} THEN compare_pair_inclusion(g, op, lhs, rhs) ELSE
  CASE typ = "int" ->
         Bind([g1 \in {append(g, Ins("Compare", <<lhs, rhs>>, <<>>, op))} |-> [g |-> g1, val |-> LastV(g1)]])
    [] typ = "tuple" /\ elts = 0 -> [g |-> g, val |-> None]
    [] typ = "tuple" /\ elts > 0 ->
         \* the iterations before the last one, then the last one
         Bind([r \in {compare_pair(g, op, lhs, rhs, typ, elts - 1)} |->
         Bind([g1 \in {append(r.g, Ins("GetAttr", <<lhs, Constant(elts - 1)>>, <<>>, "index"))} |->
         Bind([g2 \in {append(g1, Ins("GetAttr", <<rhs, Constant(elts - 1)>>, <<>>, "index"))} |->
         Bind([g3 \in {append(g2, Ins("Compare", <<LastV(g1), LastV(g2)>>, <<>>, op))} |->
           IF r.val = None THEN [g |-> g3, val |-> LastV(g3)]
           ELSE Bind([g4 \in {append(g3, Ins("Select", <<r.val, LastV(g3), ConstBool(FALSE)>>, <<>>, ""))} |->
                  [g |-> g4, val |-> LastV(g4)]])
         ])])])])
    [] typ = "list" ->
         Bind([head \in {g.current_block} |->
         Bind([g1 \in {append(g, Ins("Builtin", <<lhs>>, <<>>, "len"))} |->
         Bind([g2 \in {append(g1, Ins("Builtin", <<rhs>>, <<>>, "len"))} |->
         Bind([g3 \in {append(g2, Ins("Compare", <<LastV(g1), LastV(g2)>>, <<>>, op))} |->
         Bind([g4 \in {add_block(append(g3, Ins("Compare", <<LastV(g1), LastV(g2)>>, <<>>, "Eq")), "")} |->
         Bind([loop_head \in {NewBlock(g4)} |->
         Bind([g5 \in {append([g4 EXCEPT !.current_block = loop_head], Ins("Phi", <<>>, <<>>, ""))} |->
         Bind([index_phi \in {LastV(g5)} |->
         Bind([g6 \in {add_block(append(add_incoming(g5, loop_head, index_phi.n, Constant(0), head),
                                        Ins("Compare", <<index_phi, LastV(g1)>>, <<>>, "Lt")), "")} |->
         Bind([loop_body \in {NewBlock(g6)} |->
         Bind([g7 \in {append([g6 EXCEPT !.current_block = loop_body], Ins("GetElem", <<lhs, index_phi>>, <<>>, ""))} |->
         Bind([g8 \in {append(g7, Ins("GetElem", <<rhs, index_phi>>, <<>>, ""))} |->
         Bind([body \in {compare_pair(g8, op, LastV(g7), LastV(g8), "int", 0)} |->
         Bind([g9 \in {add_block(body.g, "")} |->
         Bind([loop_body2 \in {NewBlock(g9)} |->
         Bind([g10 \in {append([g9 EXCEPT !.current_block = loop_body2],
                               Ins("BinaryOp", <<index_phi, Constant(1)>>, <<>>, "Add"))} |->
         Bind([g11 \in {add_block(add_incoming(append(g10, Ins("Branch", <<>>, <<loop_head>>, "")),
                                               loop_head, index_phi.n, LastV(g10), loop_body2), "")} |->
         Bind([tail \in {NewBlock(g11)} |->
         Bind([g12 \in {append([g11 EXCEPT !.current_block = tail], Ins("Phi", <<>>, <<>>, ""))} |->
         Bind([phi \in {LastV(g12)} |->
         Bind([g15 \in {compare_list_exits(
                           g12,
                           [head |-> head, loop_head |-> loop_head, loop_body |-> loop_body,
                            loop_body2 |-> loop_body2, tail |-> tail],
                           [phi |-> phi, eq_length |-> InsnV(g3.nid + 1), compare_length |-> LastV(g3),
                            loop_cond |-> InsnV(g5.nid + 1), body_result |-> body.val])} |->
           IF op = "NotEq"
           THEN Bind([g16 \in {append(g15, Ins("Select", <<phi, ConstBool(FALSE), ConstBool(TRUE)>>, <<>>, ""))} |->
                  [g |-> g16, val |-> LastV(g16)]])
           ELSE [g |-> g15, val |-> phi]
         ])])])])])])])])])])])])])])])])])])])])])

\* IRGenerator.visit_CompareT.  Its second loop is the one of visit_BoolOpT
\* for `and`: BranchIf(value, next_block, tail).
visit_CompareT(fr, g) ==
  CASE fr.pc = 0 -> visit(g, With(fr, 1, <<>>), fr.node.left)
    [] fr.pc = 1 -> goto(g, With(fr, 2, [lhs |-> g.ret, blocks |-> <<>>]))
    \* for op, rhs_node in zip(node.ops, node.comparators)
    [] fr.pc = 2 ->
         IF Len(fr.l.blocks) < Len(fr.node.ops)
         THEN visit(g, With(fr, 3, <<>>), fr.node.comparators[Len(fr.l.blocks) + 1])
         ELSE Bind([g1 \in {append(g, Ins("Phi", <<>>, <<>>, ""))} |->
                return(BoolOp_branches("And", fr.l.blocks, 1, g.current_block, g1.nid, g1), LastV(g1))
              ])
    [] fr.pc = 3 ->
         Bind([r \in {compare_pair(g, fr.node.ops[Len(fr.l.blocks) + 1], fr.l.lhs, g.ret,
                                   fr.node.left.type, fr.node.elts)} |->
         Bind([g1 \in {add_block(r.g, "")} |->
           goto([g1 EXCEPT !.current_block = NewBlock(g1)],
                With(fr, 2, [lhs |-> g.ret,
                             blocks |-> Append(fr.l.blocks, [value |-> r.val, block |-> r.g.current_block])]))
         ])])

\* IRGenerator._visit_one: the visitor of the node class, and the list case of
\* IRGenerator.visit.
visit_one(fr, g) ==
  CASE fr.node.kind = "list" -> visit_list(fr, g)
    [] fr.node.kind = "NumT" -> visit_NumT(fr, g)
    [] fr.node.kind = "NameT" -> visit_NameT(fr, g)
    [] fr.node.kind = "AttributeT" -> visit_AttributeT(fr, g)
    [] fr.node.kind = "BoolOpT" -> visit_BoolOpT(fr, g)
    [] fr.node.kind = "CallT" -> visit_CallT(fr, g)
    [] fr.node.kind = "UnaryOpT" -> visit_UnaryOpT(fr, g)
    [] fr.node.kind = "CompareT" -> visit_CompareT(fr, g)
    [] fr.node.kind = "BinOpT" -> visit_BinOpT(fr, g)
    [] fr.node.kind = "SubscriptT" -> visit_SubscriptT(fr, g)
    [] fr.node.kind = "Assign" -> visit_Assign(fr, g)
    [] fr.node.kind = "Expr" -> visit_Expr(fr, g)
    [] fr.node.kind = "Return" -> visit_Return(fr, g)
    [] fr.node.kind = "Break" -> visit_Break(fr, g)
    [] fr.node.kind = "Continue" -> visit_Continue(fr, g)
    [] fr.node.kind = "Raise" -> visit_Raise(fr, g)
    [] fr.node.kind = "AugAssign" -> visit_AugAssign(fr, g)
    [] fr.node.kind = "If" -> visit_If(fr, g)
    [] fr.node.kind = "While" -> visit_While(fr, g)
    [] fr.node.kind = "For" -> visit_For(fr, g)
    [] fr.node.kind = "Try" -> visit_Try(fr, g)
    [] fr.node.kind = "FunctionDefT" -> visit_FunctionDefT(fr, g)
    [] fr.node.kind = "LambdaT" -> visit_LambdaT(fr, g)
    [] fr.node.kind = "ModuleT" -> visit_ModuleT(fr, g)

\* The exception propagates out of the visit in the top frame: the finally
\* clauses of its visitor run, then the one of IRGenerator.visit.
unwind(fr, g) ==
  CASE fr.node.kind = "While" -> return(While_finally(fr, g), None)
    [] fr.node.kind = "For" -> return(For_finally(fr, g), None)
    [] fr.node.kind = "Try" -> return(IF fr.pc = 5 THEN Try_finally(fr, g) ELSE g, None)
    [] fr.node.kind \in {"FunctionDefT", "LambdaT"} -> return(function_finally(fr, g), None)
    [] fr.node.kind = "ModuleT" -> return(ModuleT_finally(fr, g), None)
    [] fr.node.kind = "Assign" -> return(Assign_finally(fr, g), None)
    [] fr.node.kind = "SubscriptT" -> return(IF fr.pc = 1 THEN SubscriptT_finally(fr, g) ELSE g, None)
    [] fr.node.kind = "AttributeT" -> return(IF fr.pc = 1 THEN AttributeT_finally(fr, g) ELSE g, None)
    [] OTHER -> return(g, None)

\* The visitors run until the outermost visit has returned or the exception
\* has left it.
RECURSIVE run(_)
run(g) ==
  IF g.stack = <<>> THEN g
  ELSE run(IF g.failed THEN unwind(Top(g), g) ELSE visit_one(Top(g), g))

\* ------------------------------------------------------------ syntax trees
\* The typed syntax tree handed to the generator.  Every node carries the
\* source location `loc` that IRGenerator.visit copies into current_loc.
NameT(id, typ, loc) == [kind |-> "NameT", id |-> id, type |-> typ, loc |-> loc]
NumT(n, loc) == [kind |-> "NumT", n |-> n, type |-> "int", loc |-> loc]
BoolOpT(op, values, loc) == [kind |-> "BoolOpT", op |-> op, values |-> values, type |-> "bool", loc |-> loc]
CallT(f, loc) ==
  [kind |-> "CallT", func |-> NameT(f, "function", loc), args |-> <<>>, keywords |-> <<>>,
   ftype |-> [args |-> <<>>, optargs |-> <<>>], type |-> "none", loc |-> loc]
Expr(value, loc) == [kind |-> "Expr", value |-> value, loc |-> loc]
\* the simple statement `f()`
CallStmt(loc) == Expr(CallT("f", loc), loc)
Return(value, loc) == [kind |-> "Return", hasvalue |-> TRUE, value |-> value, loc |-> loc]
Break(loc) == [kind |-> "Break", loc |-> loc]
Continue(loc) == [kind |-> "Continue", loc |-> loc]
Raise(exc, loc) == [kind |-> "Raise", exc |-> exc, loc |-> loc]
AugAssign(loc) == [kind |-> "AugAssign", loc |-> loc]
If(test, body, orelse, loc) == [kind |-> "If", test |-> test, body |-> body, orelse |-> orelse, loc |-> loc]
While(test, body, orelse, loc) == [kind |-> "While", test |-> test, body |-> body, orelse |-> orelse, loc |-> loc]
For(target, iter, body, orelse, loc) ==
  [kind |-> "For", target |-> target, iter |-> iter, body |-> body, orelse |-> orelse, loc |-> loc]
ExceptHandler(name, body) == [name |-> name, body |-> body]
Try(body, handlers, orelse, finalbody, loc) ==
  [kind |-> "Try", body |-> body, handlers |-> handlers, orelse |-> orelse, finalbody |-> finalbody, loc |-> loc]
FunctionDefT(name, ret, body, loc) ==
  [kind |-> "FunctionDefT", name |-> name, args |-> <<>>, ret |-> ret, globals_in_scope |-> {},
   body |-> body, loc |-> loc]
ModuleT(body) == [kind |-> "ModuleT", body |-> body, ret |-> "none", loc |-> 0]
\* `def name(args): body`, and `lambda args: body` with a body of type ret
FunctionDefArgs(name, args, ret, body, loc) == [FunctionDefT(name, ret, body, loc) EXCEPT !.args = args]
LambdaT(args, ret, body, loc) ==
  [kind |-> "LambdaT", args |-> args, ret |-> ret, globals_in_scope |-> {}, body |-> body, loc |-> loc]

\* The expression and assignment nodes.  NoNode stands for an absent child.
NoNode == [kind |-> "none"]
UnaryOpT(op, operand, loc) == [kind |-> "UnaryOpT", op |-> op, operand |-> operand, type |-> "int", loc |-> loc]
Index(value) == [kind |-> "Index", value |-> value]
Slice(lower, upper, step) ==
  [kind |-> "Slice", haslower |-> lower # NoNode, lower |-> lower, hasupper |-> upper # NoNode,
   upper |-> upper, hasstep |-> step # NoNode, step |-> step]
AttributeT(value, attr, typ, loc) ==
  [kind |-> "AttributeT", value |-> value, attr |-> attr, type |-> typ, loc |-> loc]
SubscriptT(value, slice, typ, loc) ==
  [kind |-> "SubscriptT", value |-> value, slice |-> slice, type |-> typ, loc |-> loc]
\* elts: the number of elements of the operands' type when they are tuples
CompareT(left, ops, comparators, elts, loc) ==
  [kind |-> "CompareT", left |-> left, ops |-> ops, comparators |-> comparators, elts |-> elts,
   type |-> "bool", loc |-> loc]
\* the call `f()` of a function that returns a value of type typ
CallV(f, typ, loc) == [CallT(f, loc) EXCEPT !.type = typ]
\* `f(args)` for a function f of positional parameters only, and `range(args)`
CallArgs(f, args, typ, loc) ==
  [CallT(f, loc) EXCEPT !.type = typ, !.args = args, !.ftype.args = [j \in 1..Len(args) |-> "a"]]
BinOpT(op, left, right, typ, loc) ==
  [kind |-> "BinOpT", op |-> op, left |-> left, right |-> right, type |-> typ, loc |-> loc]
RangeCall(args, loc) ==
  [CallT("range", loc) EXCEPT !.type = "range", !.args = args, !.func.type = "builtin"]
Assign(targets, value, loc) == [kind |-> "Assign", targets |-> targets, value |-> value, loc |-> loc]


\* The programs lowered: one function f whose body is a chain of compound
\* statements nested in one another (chain[1] outermost), with one simple
\* statement, the leaf, innermost.  The statement at nesting level i has
\* location 10*i; a compound statement at loc holds
\*   loc+1  the call `f()` filling its other clause (body, else or handler),
\*   loc+2  the call `f()` of its finally clause,
\*   loc+3  the call `f()` that follows the nested statement in its list,
\*   loc+4 .. loc+6  its condition, iterable or target.
Wrappers ==
  {"If", "While", "WhileElse", "WhileBool", "ForElse", "TryFinally", "TryFinallyFinal",
   "TryExcept", "TryExceptHandler", "TryExceptFinallyHandler", "TryElse", "Def"}
Leaves == {"Call", "Return", "Break", "Continue", "Raise", "AugAssign", "Lambda"}
Loops == {"While", "WhileElse", "WhileBool", "ForElse"}

Leaf(leaf, loc) ==
  CASE leaf = "Call" -> CallStmt(loc)
    [] leaf = "Return" -> Return(NumT(7, loc), loc)
    [] leaf = "Break" -> Break(loc)
    [] leaf = "Continue" -> Continue(loc)
    [] leaf = "Raise" -> Raise(NameT("e", "exception", loc), loc)
    [] leaf = "AugAssign" -> AugAssign(loc)
    [] leaf = "Lambda" -> Expr(LambdaT(<<>>, "int", NumT(7, loc), loc), loc)

\* The return type of the function whose body holds the leaf.
RetType(leaf) == IF leaf = "Return" THEN "int" ELSE "none"

Wrap(w, loc, inner, ret) ==
  CASE w = "If" -> If(NameT("c", "bool", loc + 4), inner, <<>>, loc)
    [] w = "While" -> While(NameT("c", "bool", loc + 4), inner, <<>>, loc)
    [] w = "WhileElse" -> While(NameT("c", "bool", loc + 4), inner, <<CallStmt(loc + 1)>>, loc)
    [] w = "WhileBool" ->
         While(BoolOpT("And", <<NameT("a", "bool", loc + 4), NameT("b", "bool", loc + 5)>>, loc + 6),
               inner, <<CallStmt(loc + 1)>>, loc)
    [] w = "ForElse" ->
         For(NameT("x", "int", loc + 4), NameT("lst", "list", loc + 5), inner, <<CallStmt(loc + 1)>>, loc)
    [] w = "TryFinally" -> Try(inner, <<>>, <<>>, <<CallStmt(loc + 2)>>, loc)
    [] w = "TryFinallyFinal" -> Try(<<CallStmt(loc + 1)>>, <<>>, <<>>, inner, loc)
    [] w = "TryExcept" -> Try(inner, <<ExceptHandler("", <<CallStmt(loc + 1)>>)>>, <<>>, <<>>, loc)
    [] w = "TryExceptHandler" -> Try(<<CallStmt(loc + 1)>>, <<ExceptHandler("e", inner)>>, <<>>, <<>>, loc)
    [] w = "TryExceptFinallyHandler" ->
         Try(<<CallStmt(loc + 1)>>, <<ExceptHandler("", inner)>>, <<>>, <<CallStmt(loc + 2)>>, loc)
    [] w = "TryElse" ->
         Try(<<CallStmt(loc + 1)>>, <<ExceptHandler("", <<CallStmt(loc + 5)>>)>>, inner, <<>>, loc)
    [] w = "Def" -> FunctionDefT("g", ret, inner, loc)

RECURSIVE Nest(_, _, _)
Nest(chain, i, leaf) ==
  IF i > Len(chain) THEN Leaf(leaf, 10 * i)
  ELSE Wrap(chain[i], 10 * i, <<Nest(chain, i + 1, leaf), CallStmt(10 * i + 3)>>, RetType(leaf))

\* Whether the function holding the leaf is f itself (no nested def).
InF(chain) == \A i \in 1..Len(chain) : chain[i] # "Def"

Program(chain, leaf) ==
  ModuleT(<<FunctionDefT("f", IF InF(chain) THEN RetType(leaf) ELSE "none",
                         <<Nest(chain, 1, leaf), CallStmt(3)>>, 1)>>)

\* The chains of at most n wrappers.
RECURSIVE Chains(_)
Chains(n) ==
  IF n = 0 THEN {<<>>}
  ELSE LET shorter == Chains(n - 1)
       IN  shorter \cup {Append(c, w) : c \in shorter, w \in Wrappers}

\* break and continue occur only inside a loop of their own function (the
\* type checker rejects the others).
InLoop(chain) ==
  \E i \in 1..Len(chain) :
     /\ chain[i] \in Loops
     /\ \A j \in (i + 1)..Len(chain) : chain[j] # "Def"

Programs ==
  {p \in [chain : Chains(MaxNest), leaf : Leaves] :
     p.leaf \in {"Break", "Continue"} => InLoop(p.chain)}

\* ------------------------------------------------ expression programs
\* The second family of programs: one function f whose body is one statement
\* built around an expression, run on inputs given from outside: the lists
\* xs and ys and the integer i.
MaxLen == 2

\* A list of length n given from outside: element j (from 0) is base + j.
Elements(base, n) == [j \in 1..n |-> Constant(base + j)]

\* `return xs[IDX]` and `xs[IDX] = 5`, IDX a literal k, a literal -k or the name i.
IndexPrograms ==
  {[kind |-> "index", mode |-> m, idx |-> "num", k |-> k, i |-> 0, xs |-> Elements(100, n)] :
      m \in {"read", "write"}, k \in 0..(MaxLen + 1), n \in 0..MaxLen}
  \cup
  {[kind |-> "index", mode |-> m, idx |-> "neg", k |-> k, i |-> 0, xs |-> Elements(100, n)] :
      m \in {"read", "write"}, k \in 1..(MaxLen + 1), n \in 0..MaxLen}
  \cup
  {[kind |-> "index", mode |-> m, idx |-> "name", k |-> 0, i |-> i, xs |-> Elements(100, n)] :
      m \in {"read", "write"}, i \in (0 - MaxLen - 1)..(MaxLen + 1), n \in 0..MaxLen}

IndexExpr(p) ==
  CASE p.idx = "num" -> NumT(p.k, 11)
    [] p.idx = "neg" -> UnaryOpT("USub", NumT(p.k, 11), 11)
    [] p.idx = "name" -> NameT("i", "int", 11)

IndexBody(p) ==
  IF p.mode = "read"
  THEN <<Return(SubscriptT(NameT("xs", "list", 12), Index(IndexExpr(p)), "int", 10), 10)>>
  ELSE <<Assign(<<SubscriptT(NameT("xs", "list", 12), Index(IndexExpr(p)), "int", 10)>>, NumT(5, 13), 10)>>


\* `o.b = 5`, `xs[i].b = 5`, `o.b[i] = 5` and `o.b[0] = 5`; in mode "read" the
\* target is returned instead.
AttrForms == {"o.b", "xs[i].b", "o.b[i]", "o.b[0]"}

AttrPrograms ==
  {[kind |-> "attr", mode |-> m, form |-> f, i |-> i, xs |-> Elements(100, n)] :
      m \in {"read", "write"}, f \in AttrForms, i \in 0..MaxLen, n \in 0..MaxLen}

AttrTarget(p) ==
  CASE p.form = "o.b" -> AttributeT(NameT("o", "obj", 12), "b", "int", 10)
    [] p.form = "xs[i].b" ->
         AttributeT(SubscriptT(NameT("xs", "list", 12), Index(NameT("i", "int", 11)), "obj", 14),
                    "b", "int", 10)
    [] p.form = "o.b[i]" ->
         SubscriptT(AttributeT(NameT("o", "obj", 12), "b", "list", 14), Index(NameT("i", "int", 11)),
                    "int", 10)
    [] p.form = "o.b[0]" ->
         SubscriptT(AttributeT(NameT("o", "obj", 12), "b", "list", 14), Index(NumT(0, 11)), "int", 10)

AttrBody(p) ==
  IF p.mode = "read" THEN <<Return(AttrTarget(p), 10)>>
  ELSE <<Assign(<<AttrTarget(p)>>, NumT(5, 13), 10)>>

\* `xs[lo:hi:step] = ys`, and `xs[lo:] = ys` when `open`.
SlicePrograms ==
  {[kind |-> "slice", open |-> o, lo |-> lo, hi |-> hi, step |-> st,
    xs |-> Elements(100, n), ys |-> Elements(200, r)] :
      o \in BOOLEAN, lo \in 0..MaxLen, hi \in 0..MaxLen, st \in 1..2, n \in 0..MaxLen, r \in 0..MaxLen}

SliceBody(p) ==
  <<Assign(<<SubscriptT(NameT("xs", "list", 12),
                        IF p.open THEN Slice(NumT(p.lo, 11), NoNode, NoNode)
                        ELSE Slice(NumT(p.lo, 11), NumT(p.hi, 14), NumT(p.step, 15)),
                        "list", 10)>>,
           NameT("ys", "list", 13), 10)>>

\* The comparison operators.
CmpOps == {"Eq", "NotEq", "Lt", "LtE", "Gt", "GtE"}

\* The sequences of length 1..n over the set S.
RECURSIVE Seqs(_, _)
Seqs(S, n) ==
  IF n = 0 THEN {}
  ELSE {<<x>> : x \in S} \cup {Append(q, x) : q \in Seqs(S, n - 1), x \in S}

\* `return p() OP q() OP r()`: a chain of Len(ops) + 1 operands, operand j the
\* call at location 10 + j of a function that returns an integer; when `last`
\* is "index" the last operand is xs[0] instead.
ComparePrograms ==
  {[kind |-> "compare", ops |-> o, last |-> "call", xs |-> <<>>] : o \in Seqs(CmpOps, MaxLen)}
  \cup
  {[kind |-> "compare", ops |-> o, last |-> "index", xs |-> <<Constant(v)>>] :
      o \in Seqs(CmpOps, MaxLen), v \in 0..MaxLen}

Operand(p, j) ==
  IF p.last = "index" /\ j = Len(p.ops) + 1
  THEN SubscriptT(NameT("xs", "list", 10 + j), Index(NumT(0, 10 + j)), "int", 10 + j)
  ELSE CallV("p", "int", 10 + j)

CompareBody(p) ==
  <<Return(CompareT(Operand(p, 1), p.ops, [j \in 1..Len(p.ops) |-> Operand(p, j + 1)], 0, 10), 10)>>

\* `return p() OP q() OP r()` for OP `and` or `or`: n operands, operand j the
\* call at location 10 + j of a function that returns a boolean.  With
\* `nested` "boolop" the last operand is `(q() OP' r())` for the other operator
\* OP', with "compare" it is `(q() < r())` on integers; their calls are at
\* locations 10 + n and 10 + n + 1.
BoolOpPrograms ==
  [kind : {"boolop"}, op : {"And", "Or"}, n : 2..(MaxLen + 1), nested : {"none", "boolop", "compare"}]

Other(op) == IF op = "And" THEN "Or" ELSE "And"

BoolOperand(p, j) ==
  CASE j = p.n /\ p.nested = "boolop" ->
         BoolOpT(Other(p.op), <<CallV("p", "bool", 10 + j), CallV("p", "bool", 11 + j)>>, 19)
    [] j = p.n /\ p.nested = "compare" ->
         CompareT(CallV("p", "int", 10 + j), <<"Lt">>, <<CallV("p", "int", 11 + j)>>, 0, 19)
    [] OTHER -> CallV("p", "bool", 10 + j)

BoolOpBody(p) == <<Return(BoolOpT(p.op, [j \in 1..p.n |-> BoolOperand(p, j)], 10), 10)>>

\* Largest element of the lists and tuples compared.
MaxElem == 1

\* The sequences of length n over 0..MaxElem.
Tuples(n) == [1..n -> {Constant(v) : v \in 0..MaxElem}]

\* `return xs OP ys` for two lists of integers, or two tuples of integers of
\* the same arity.
ListComparePrograms ==
  {[kind |-> "listcmp", typ |-> "list", op |-> o, xs |-> x, ys |-> y] :
      o \in CmpOps, x \in UNION {Tuples(n) : n \in 0..MaxLen}, y \in UNION {Tuples(n) : n \in 0..MaxLen}}
  \cup
  UNION {{[kind |-> "listcmp", typ |-> "tuple", op |-> o, xs |-> x, ys |-> y] :
            o \in CmpOps, x \in Tuples(n), y \in Tuples(n)} : n \in 1..MaxLen}

ListCompareBody(p) ==
  <<Return(CompareT(NameT("xs", p.typ, 11), <<p.op>>, <<NameT("ys", p.typ, 12)>>,
                    IF p.typ = "tuple" THEN Len(p.xs) ELSE 0, 10), 10)>>

\* `for x in range(start, stop, step): p(x)`, with `continue` after the call
\* when `cont`, and with an else clause when `orelse`.
ForRangePrograms ==
  [kind : {"forrange"}, start : 0..1, stop : 0..MaxLen, step : 1..2, cont : BOOLEAN, orelse : BOOLEAN]

ForRangeBody(p) ==
  <<For(NameT("x", "int", 11),
        RangeCall(<<NumT(p.start, 12), NumT(p.stop, 12), NumT(p.step, 12)>>, 12),
        <<Expr(CallArgs("p", <<NameT("x", "int", 21)>>, "int", 21), 21)>>
          \o (IF p.cont THEN <<Continue(22)>> ELSE <<>>),
        IF p.orelse THEN <<Expr(NumT(0, 30), 30)>> ELSE <<>>, 10)>>

\* `return xs * n`, and `return n * xs` when `swap`.
RepeatPrograms ==
  {[kind |-> "repeat", xs |-> Elements(100, len), n |-> n, swap |-> w] :
      len \in 0..MaxLen, n \in 0..MaxLen, w \in BOOLEAN}

RepeatBody(p) ==
  <<Return(IF p.swap THEN BinOpT("Mult", NumT(p.n, 11), NameT("xs", "list", 12), "list", 10)
           ELSE BinOpT("Mult", NameT("xs", "list", 12), NumT(p.n, 11), "list", 10), 10)>>

\* `g(...)` for a function g that declares `npos` positional parameters
\* followed by `nopt` optional ones: the call supplies the first `given`
\* parameters positionally, parameter i with the value i, and the parameters
\* in `kw` by keyword, parameter i with the value 10 + i, in declaration order
\* or in the reverse order (`rev`); every positional parameter is supplied.
\* With `intry` the call is the body of a try statement.
ParamNames == <<"p1", "p2", "p3", "p4", "p5", "p6", "p7", "p8">>
CallPrograms ==
  UNION {{[kind |-> "call", npos |-> np, nopt |-> no, given |-> gv, kw |-> kw, rev |-> rv, intry |-> it] :
            kw \in {K \in SUBSET ((gv + 1)..(np + no)) : (gv + 1)..np \subseteq K},
            rv \in BOOLEAN, it \in BOOLEAN} :
          <<np, no, gv>> \in {t \in (0..MaxLen) \X (0..MaxLen) \X (0..(2 * MaxLen)) : t[3] <= t[1] + t[2]}}

RECURSIVE Ascending(_)
Ascending(S) ==
  IF S = {} THEN <<>>
  ELSE LET m == CHOOSE x \in S : \A y \in S : x <= y IN <<m>> \o Ascending(S \ {m})

Keywords(p) ==
  LET asc == Ascending(p.kw)
      order == IF p.rev THEN [j \in 1..Len(asc) |-> asc[Len(asc) + 1 - j]] ELSE asc
  IN  [j \in 1..Len(order) |-> [arg |-> ParamNames[order[j]], value |-> NumT(10 + order[j], 20)]]

CallBody(p) ==
  LET call == Expr([CallT("g", 20) EXCEPT !.type = "int",
                                          !.args = [j \in 1..p.given |-> NumT(j, 20)],
                                          !.keywords = Keywords(p),
                                          !.ftype = [args |-> SubSeq(ParamNames, 1, p.npos),
                                                     optargs |-> SubSeq(ParamNames, p.npos + 1,
                                                                        p.npos + p.nopt)]], 20)
  IN  IF p.intry
      THEN <<Try(<<call>>, <<ExceptHandler("", <<Expr(NumT(0, 30), 30)>>)>>, <<>>, <<>>, 10)>>
      ELSE <<call>>

\* `return i in range(start, stop, step)`, and `not in`.
InRangePrograms ==
  [kind : {"inrange"}, op : {"In", "NotIn"}, i : (0 - 1)..(MaxLen + 1),
   start : 0..(MaxLen + 1), stop : 0..(MaxLen + 1), step : {0 - 2, 0 - 1, 1, 2}]

IntLit(n, loc) == IF n < 0 THEN UnaryOpT("USub", NumT(0 - n, loc), loc) ELSE NumT(n, loc)

InRangeBody(p) ==
  <<Return(CompareT(NameT("i", "int", 11), <<p.op>>,
                    <<RangeCall(<<NumT(p.start, 12), NumT(p.stop, 12), IntLit(p.step, 12)>>, 12)>>,
                    0, 10), 10)>>

\* The function f of an expression program.
\* def f(x1, .., xn): return <a number, the last argument or a call>
ArgNames == <<"x1", "x2", "x3", "x4">>
FuncPrograms == {p \in [kind : {"func"}, arity : 0..MaxLen, value : {"num", "arg", "call"}] :
                   p.value = "arg" => p.arity > 0}
FuncBody(p) ==
  <<Return(CASE p.value = "num" -> NumT(1, 2)
             [] p.value = "arg" -> NameT(ArgNames[p.arity], "int", 2)
             [] p.value = "call" -> CallV("g", "int", 2), 2)>>

BodyE(p) ==
  CASE p.kind = "func" -> FuncBody(p)
    [] p.kind = "forrange" -> ForRangeBody(p)
    [] p.kind = "repeat" -> RepeatBody(p)
    [] p.kind = "call" -> CallBody(p)
    [] p.kind = "inrange" -> InRangeBody(p)
    [] p.kind = "index" -> IndexBody(p)
    [] p.kind = "attr" -> AttrBody(p)
    [] p.kind = "slice" -> SliceBody(p)
    [] p.kind = "compare" -> CompareBody(p)
    [] p.kind = "boolop" -> BoolOpBody(p)
    [] p.kind = "listcmp" -> ListCompareBody(p)

RetTypeE(p) ==
  CASE p.kind \in {"index", "attr"} -> IF p.mode = "read" THEN "int" ELSE "none"
    [] p.kind \in {"slice", "forrange", "call"} -> "none"
    [] p.kind \in {"compare", "boolop", "listcmp", "inrange"} -> "bool"
    [] p.kind = "func" -> "int"
    [] p.kind = "repeat" -> "list"

ProgramE(p) ==
  ModuleT(<<FunctionDefArgs("f", IF p.kind = "func" THEN SubSeq(ArgNames, 1, p.arity) ELSE <<>>,
                            RetTypeE(p), BodyE(p), 1)>>)

ProgramsE ==
  IndexPrograms \cup SlicePrograms \cup ComparePrograms \cup BoolOpPrograms \cup ListComparePrograms
    \cup FuncPrograms \cup ForRangePrograms \cup RepeatPrograms \cup CallPrograms
    \cup InRangePrograms \cup AttrPrograms

\* ------------------------------------------------------------ state machine
\* prog    the program being compiled (a chain and a leaf)
\* gen     the IRGenerator
\* status  "start", then "lowered" or "failed" (the lowering raised); while an
\*         emitted function runs "run", then "returned", "raised" (an exception
\*         leaves the function), "unreachable" or "malformed" (control falls off
\*         a block without terminator, or an indirect branch has no such target)
\* pc      the instruction to execute next: block b, index i
\* prev    the block control came from
\* regs    the values of the instructions executed so far, by instruction id
\* mem     the environment slots written so far
\* hist    the blocks entered and the calls made, in order
\* result  the value returned
VARIABLES prog, gen, status, pc, prev, regs, mem, hist, result
vars == <<prog, gen, status, pc, prev, regs, mem, hist, result>>

Init ==
  /\ prog \in Programs
  /\ gen = NewGenerator
  /\ status = "start"
  /\ pc = [b |-> 0, i |-> 0]
  /\ prev = 0
  /\ regs = <<>>
  /\ mem = <<>>
  /\ hist = <<>>
  /\ result = None

\* IRGenerator.visit on the module: the whole lowering pass.
Lower ==
  /\ status = "start"
  /\ gen' = run([gen EXCEPT !.stack = <<Frame(Program(prog.chain, prog.leaf), gen)>>])
  /\ status' = IF gen'.failed THEN "failed" ELSE "lowered"
  /\ UNCHANGED <<prog, pc, prev, regs, mem, hist, result>>

\* ir.Function.entry: the first block of function f.
Entry(f) == CHOOSE b \in 1..Len(gen.blocks) :
              /\ gen.blocks[b].fn = f
              /\ \A c \in 1..(b - 1) : gen.blocks[c].fn # f

BlockEvent(b) == [e |-> "block", n |-> b]
CallEvent(loc) == [e |-> "call", n |-> loc]

\* An emitted function is entered.
Enter(f) ==
  /\ status = "lowered"
  /\ status' = "run"
  /\ pc' = [b |-> Entry(f), i |-> 1]
  /\ hist' = <<BlockEvent(Entry(f))>>
  /\ UNCHANGED <<prog, gen, prev, regs, mem, result>>

Running == status = "run" /\ pc.i <= Len(gen.blocks[pc.b].insns)
Cur == gen.blocks[pc.b].insns[pc.i]

\* The run-time value of an operand.
Opaque(id) == [k |-> "opaque", n |-> id]
Eval(v) ==
  IF v.k = "insn" THEN (IF v.n \in DOMAIN regs THEN regs[v.n] ELSE Undef)
  ELSE IF v.k = "arg" THEN Opaque(0)
  ELSE v

Slot(env, name) == [env |-> env, name |-> name]

\* The boolean variables of the programs.
BoolVars == {"a", "b", "c"}

\* The instruction yields v and control moves to the next instruction.
Yield(v) ==
  /\ regs' = (Cur.id :> v) @@ regs
  /\ pc' = [pc EXCEPT !.i = @ + 1]

\* Control moves to the start of block b.
Goto(b, events) ==
  /\ Len(hist) + Len(events) + 1 <= MaxHist
  /\ pc' = [b |-> b, i |-> 1]
  /\ prev' = pc.b
  /\ hist' = hist \o events \o <<BlockEvent(b)>>

\* The variables whose values are given from outside.
InputVars == {"xs", "ys", "i"}

\* The list objects given for xs and ys.
ListV(i) == [k |-> "list", n |-> i]

\* The contents of a list or tuple object are kept in mem under its "elts".
Elts(v) == Slot(v, "elts")

\* mem also keeps the element accesses made so far, in order.
AccessLog == Slot([k |-> "log", n |-> 0], "access")
Access(op, list, index) == [op |-> op, list |-> list.n, index |-> index]

InputValue(name) ==
  CASE name = "xs" -> ListV(1)
    [] name = "ys" -> ListV(2)
    [] name = "i" -> Constant(prog.i)

\* The memory when a function of an expression program is entered.
InitialHeap ==
  (Elts(ListV(1)) :> (IF "xs" \in DOMAIN prog THEN prog.xs ELSE <<>>))
  @@ (Elts(ListV(2)) :> (IF "ys" \in DOMAIN prog THEN prog.ys ELSE <<>>))
  @@ (AccessLog :> <<>>)

ExecAlloc ==
  /\ Running /\ Cur.op = "Alloc"
  /\ Yield([k |-> "obj", n |-> Cur.id])
  /\ mem' = IF Cur.s = "list" /\ Len(Cur.args) = 1 /\ Eval(Cur.args[1]).k = "const"
            THEN (Elts([k |-> "obj", n |-> Cur.id]) :> [j \in 1..Eval(Cur.args[1]).n |-> Undef]) @@ mem
            ELSE mem
  /\ UNCHANGED <<prog, gen, status, prev, hist, result>>

ExecSetLocal ==
  /\ Running /\ Cur.op = "SetLocal"
  /\ mem' = (Slot(Eval(Cur.args[1]), Cur.s) :> Eval(Cur.args[2])) @@ mem
  /\ pc' = [pc EXCEPT !.i = @ + 1]
  /\ UNCHANGED <<prog, gen, status, prev, regs, hist, result>>

\* A variable the function has not written holds a value of its type given
\* from outside: any boolean for the boolean variables.
ExecGetLocal ==
  /\ Running /\ Cur.op = "GetLocal"
  /\ IF Slot(Eval(Cur.args[1]), Cur.s) \in DOMAIN mem
     THEN Yield(mem[Slot(Eval(Cur.args[1]), Cur.s)])
     ELSE IF Cur.s \in BoolVars
     THEN \E v \in BOOLEAN : Yield(ConstBool(v))
     ELSE IF Cur.s \in InputVars
     THEN Yield(InputValue(Cur.s))
     ELSE Yield(Undef)
  /\ UNCHANGED <<prog, gen, status, prev, mem, hist, result>>

ExecPhi ==
  /\ Running /\ Cur.op = "Phi"
  /\ LET from == {j \in 1..Len(Cur.blks) : Cur.blks[j] = prev}
     IN  Yield(IF from = {} THEN Undef ELSE Eval(Cur.args[CHOOSE j \in from : TRUE]))
  /\ UNCHANGED <<prog, gen, status, prev, mem, hist, result>>

\* Instructions without control flow whose value the model leaves opaque.
ExecOther ==
  /\ Running /\ Cur.op \in {"Builtin", "BinaryOp", "GetElem", "GetAttr", "Closure"}
  /\ Yield(Opaque(Cur.id))
  /\ UNCHANGED <<prog, gen, status, prev, mem, hist, result>>

\* A comparison of values the model leaves opaque yields either boolean.
ExecCompare ==
  /\ Running /\ Cur.op = "Compare"
  /\ \E v \in BOOLEAN : Yield(ConstBool(v))
  /\ UNCHANGED <<prog, gen, status, prev, mem, hist, result>>

\* A Call returns, or the callee raises and the exception leaves the function.
ExecCall ==
  /\ Running /\ Cur.op = "Call"
  /\ Len(hist) < MaxHist
  /\ hist' = Append(hist, CallEvent(Cur.loc))
  /\ \/ Yield(Opaque(Cur.id)) /\ UNCHANGED status
     \/ status' = "raised" /\ UNCHANGED <<pc, regs>>
  /\ UNCHANGED <<prog, gen, prev, mem, result>>

\* An Invoke returns to its normal block or unwinds to its landing pad.
ExecInvoke ==
  /\ Running /\ Cur.op = "Invoke"
  /\ \E j \in 1..2 : Goto(Cur.blks[j], <<CallEvent(Cur.loc)>>)
  /\ regs' = (Cur.id :> Opaque(Cur.id)) @@ regs
  /\ UNCHANGED <<prog, gen, status, mem, result>>

ExecBranch ==
  /\ Running /\ Cur.op = "Branch"
  /\ Goto(Cur.blks[1], <<>>)
  /\ UNCHANGED <<prog, gen, status, regs, mem, result>>

ExecBranchIf ==
  /\ Running /\ Cur.op = "BranchIf"
  /\ LET c == Eval(Cur.args[1])
     IN  \E j \in 1..2 :
            /\ c.k = "bool" => j = (IF c.n = 1 THEN 1 ELSE 2)
            /\ Goto(Cur.blks[j], <<>>)
  /\ UNCHANGED <<prog, gen, status, regs, mem, result>>

\* The destination read from the continuation slot must be one of the
\* candidate blocks and a block of the function.
ExecIndirectBranch ==
  /\ Running /\ Cur.op = "IndirectBranch"
  /\ LET dest == Eval(Cur.args[1])
         ok == /\ dest.k = "block"
               /\ \E j \in 1..Len(Cur.blks) : Cur.blks[j] = dest.n
               /\ gen.blocks[dest.n].live
     IN  IF ok
         THEN Goto(dest.n, <<>>) /\ UNCHANGED status
         ELSE status' = "malformed" /\ UNCHANGED <<pc, prev, hist>>
  /\ UNCHANGED <<prog, gen, regs, mem, result>>

\* The landing pad dispatches to the handler whose type matches, if any.
ExecLandingPad ==
  /\ Running /\ Cur.op = "LandingPad"
  /\ \/ \E j \in 1..Len(Cur.blks) : Goto(Cur.blks[j], <<>>) /\ UNCHANGED status
     \/ status' = "raised" /\ UNCHANGED <<pc, prev, hist>>
  /\ UNCHANGED <<prog, gen, regs, mem, result>>

ExecReturn ==
  /\ Running /\ Cur.op = "Return"
  /\ status' = "returned"
  /\ result' = Eval(Cur.args[1])
  /\ UNCHANGED <<prog, gen, pc, prev, regs, mem, hist>>

ExecRaise ==
  /\ Running /\ Cur.op = "Raise"
  /\ status' = "raised"
  /\ result' = IF Cur.args = <<>> THEN None ELSE Eval(Cur.args[1])
  /\ UNCHANGED <<prog, gen, pc, prev, regs, mem, hist>>

ExecUnreachable ==
  /\ Running /\ Cur.op = "Unreachable"
  /\ status' = "unreachable"
  /\ UNCHANGED <<prog, gen, pc, prev, regs, mem, hist, result>>

\* Control reaches the end of a block that has no terminator.
FallOff ==
  /\ status = "run" /\ pc.i > Len(gen.blocks[pc.b].insns)
  /\ status' = "malformed"
  /\ UNCHANGED <<prog, gen, pc, prev, regs, mem, hist, result>>

Next ==
  \/ Lower
  \/ \E f \in 1..Len(gen.functions) : Enter(f)
  \/ ExecAlloc \/ ExecSetLocal \/ ExecGetLocal \/ ExecPhi \/ ExecOther \/ ExecCompare
  \/ ExecCall \/ ExecInvoke \/ ExecBranch \/ ExecBranchIf \/ ExecIndirectBranch
  \/ ExecLandingPad \/ ExecReturn \/ ExecRaise \/ ExecUnreachable \/ FallOff

Spec == Init /\ [][Next]_vars

\* --------------------------------------- running the expression programs
InitE ==
  /\ prog \in ProgramsE
  /\ gen = NewGenerator
  /\ status = "start"
  /\ pc = [b |-> 0, i |-> 0]
  /\ prev = 0
  /\ regs = <<>>
  /\ mem = <<>>
  /\ hist = <<>>
  /\ result = None

LowerE ==
  /\ status = "start"
  /\ gen' = run([gen EXCEPT !.stack = <<Frame(ProgramE(prog), gen)>>])
  /\ status' = IF gen'.failed THEN "failed" ELSE "lowered"
  /\ UNCHANGED <<prog, pc, prev, regs, mem, hist, result>>

\* The function f is entered with the lists in memory.
EnterE(f) ==
  /\ status = "lowered"
  /\ status' = "run"
  /\ pc' = [b |-> Entry(f), i |-> 1]
  /\ hist' = <<BlockEvent(Entry(f))>>
  /\ mem' = InitialHeap
  /\ UNCHANGED <<prog, gen, prev, regs, result>>

\* The element an access names exists.
InBounds(list, index) ==
  /\ Elts(list) \in DOMAIN mem
  /\ index.k = "const"
  /\ 0 <= index.n /\ index.n < Len(mem[Elts(list)])

\* The Alloc instruction that created the object v.
AllocOf(v) ==
  CHOOSE x \in UNION {{gen.blocks[b].insns[i] : i \in DOMAIN gen.blocks[b].insns} : b \in DOMAIN gen.blocks} :
    x.id = v.n

\* a // b of Python for b # 0: the quotient rounded towards minus infinity.
FloorDiv(a, b) == IF b > 0 THEN a \div b ELSE (0 - a) \div (0 - b)

\* The value of an instruction that computes on integers and booleans:
\* Compare, BinaryOp, UnaryOp, Select(cond, if_true, if_false), Builtin("len"),
\* GetAttr(tuple, index).
\* An operand of another kind makes the value undefined.
Arith(ins, v) ==
  CASE ins.op = "Compare" /\ v[1].k = "const" /\ v[2].k = "const" ->
         ConstBool(CASE ins.s = "Eq" -> v[1].n = v[2].n
                     [] ins.s = "NotEq" -> v[1].n # v[2].n
                     [] ins.s = "Lt" -> v[1].n < v[2].n
                     [] ins.s = "LtE" -> v[1].n <= v[2].n
                     [] ins.s = "Gt" -> v[1].n > v[2].n
                     [] ins.s = "GtE" -> v[1].n >= v[2].n)
    [] ins.op = "BinaryOp" /\ v[1].k = "const" /\ v[2].k = "const"
         /\ (ins.s \in {"FloorDiv", "Mod"} => v[2].n # 0) ->
         Constant(CASE ins.s = "Add" -> v[1].n + v[2].n
                    [] ins.s = "Sub" -> v[1].n - v[2].n
                    [] ins.s = "Mult" -> v[1].n * v[2].n
                    [] ins.s = "FloorDiv" -> FloorDiv(v[1].n, v[2].n)
                    [] ins.s = "Mod" -> v[1].n - v[2].n * FloorDiv(v[1].n, v[2].n))
    [] ins.op = "UnaryOp" /\ ins.s = "USub" /\ v[1].k = "const" -> Constant(0 - v[1].n)
    [] ins.op = "Select" /\ v[1].k = "bool" -> IF v[1].n = 1 THEN v[2] ELSE v[3]
    [] ins.op = "Builtin" /\ ins.s = "len" /\ Elts(v[1]) \in DOMAIN mem -> Constant(Len(mem[Elts(v[1])]))
    [] ins.op = "GetAttr" /\ ins.s = "index" /\ InBounds(v[1], v[2]) -> mem[Elts(v[1])][v[2].n + 1]
    [] ins.op = "GetAttr" /\ ins.s \in {"start", "stop", "step"} /\ v[1].k = "obj" /\ AllocOf(v[1]).s = "range" ->
         Eval(AllocOf(v[1]).args[CASE ins.s = "start" -> 1 [] ins.s = "stop" -> 2 [] ins.s = "step" -> 3])
    [] OTHER -> Undef

ExecArith ==
  /\ Running /\ Cur.op \in {"Compare", "BinaryOp", "UnaryOp", "Select", "Builtin", "GetAttr"}
  /\ Yield(Arith(Cur, [j \in 1..Len(Cur.args) |-> Eval(Cur.args[j])]))
  /\ UNCHANGED <<prog, gen, status, prev, mem, hist, result>>

\* A Call of a function that returns an integer or a boolean returns any
\* value of the type.
ExecCallValue ==
  /\ Running /\ Cur.op = "Call" /\ Cur.s \in {"int", "bool"}
  /\ Len(hist) < MaxHist
  /\ hist' = Append(hist, CallEvent(Cur.loc))
  /\ \E v \in 0..MaxLen :
        /\ Cur.s = "bool" => v \in {0, 1}
        /\ Yield(IF Cur.s = "bool" THEN ConstBool(v = 1) ELSE Constant(v))
  /\ mem' = IF Len(Cur.args) > 1
            THEN [mem EXCEPT ![AccessLog] = Append(@, Access("call", Constant(Cur.loc), Eval(Cur.args[2])))]
            ELSE mem
  /\ UNCHANGED <<prog, gen, status, prev, result>>

\* GetElem(list, index): an access outside the list, or with an undefined
\* operand, is a memory fault.
ExecGetElem ==
  /\ Running /\ Cur.op = "GetElem"
  /\ IF InBounds(Eval(Cur.args[1]), Eval(Cur.args[2]))
     THEN /\ Yield(mem[Elts(Eval(Cur.args[1]))][Eval(Cur.args[2]).n + 1])
          /\ mem' = [mem EXCEPT ![AccessLog] =
                       Append(@, Access("get", Eval(Cur.args[1]), Eval(Cur.args[2]).n))]
          /\ UNCHANGED status
     ELSE status' = "fault" /\ UNCHANGED <<pc, regs, mem>>
  /\ UNCHANGED <<prog, gen, prev, hist, result>>

\* SetElem(list, index, value)
ExecSetElem ==
  /\ Running /\ Cur.op = "SetElem"
  /\ IF InBounds(Eval(Cur.args[1]), Eval(Cur.args[2]))
     THEN /\ pc' = [pc EXCEPT !.i = @ + 1]
          /\ mem' = [mem EXCEPT ![Elts(Eval(Cur.args[1]))][Eval(Cur.args[2]).n + 1] = Eval(Cur.args[3]),
                                ![AccessLog] =
                                  Append(@, Access("set", Eval(Cur.args[1]), Eval(Cur.args[2]).n))]
          /\ UNCHANGED status
     ELSE status' = "fault" /\ UNCHANGED <<pc, mem>>
  /\ UNCHANGED <<prog, gen, prev, regs, hist, result>>

\* SetAttr(obj, value): the attribute is written.
ExecSetAttr ==
  /\ Running /\ Cur.op = "SetAttr"
  /\ mem' = (Slot(Eval(Cur.args[1]), Cur.s) :> Eval(Cur.args[2])) @@ mem
  /\ pc' = [pc EXCEPT !.i = @ + 1]
  /\ UNCHANGED <<prog, gen, status, prev, regs, hist, result>>

NextE ==
  \/ LowerE
  \/ EnterE(2)
  \/ ExecAlloc \/ ExecSetLocal \/ ExecGetLocal \/ ExecPhi
  \/ ExecArith \/ ExecCallValue \/ ExecGetElem \/ ExecSetElem \/ ExecSetAttr
  \/ ExecBranch \/ ExecBranchIf \/ ExecReturn \/ ExecRaise

SpecE == InitE /\ [][NextE]_vars

\* ------------------------------------------------------------- properties
\* The lowering pass has completed and `gen` holds the emitted functions.
Lowered == status \notin {"start", "failed"}

\* The blocks of the emitted functions (removed blocks belong to none).
LiveBlocks(g) == {b \in 1..Len(g.blocks) : g.blocks[b].live}

\* The instructions of the emitted functions.
AllInsns(g) == UNION {{g.blocks[b].insns[i] : i \in 1..Len(g.blocks[b].insns)} : b \in LiveBlocks(g)}

\* The elements of a sequence.
Range(s) == {s[i] : i \in 1..Len(s)}

\* Block b holds exactly one terminator, as its last instruction.
WellTerminated(g, b) ==
  {i \in 1..Len(g.blocks[b].insns) : g.blocks[b].insns[i].op \in Terminators} = {Len(g.blocks[b].insns)}

\* C1: after the lowering of a module completes, every basic block of every
\* emitted function contains exactly one terminator instruction, and that
\* terminator is the block's last instruction.
C1_OneTerminatorLast == Lowered => \A b \in LiveBlocks(gen) : WellTerminated(gen, b)

\* The incoming blocks recorded by the Phi instructions of block b are exactly
\* the blocks whose terminator branches into b.
PhiMatches(g, b) ==
  \A i \in 1..Len(g.blocks[b].insns) :
     g.blocks[b].insns[i].op = "Phi" => Range(g.blocks[b].insns[i].blks) = predecessors(g, b)

\* C2: for every Phi emitted by the lowering, the set of blocks recorded as
\* incoming predecessors equals the set of blocks whose terminator branches
\* into the block that owns the Phi.
C2_PhiPredecessors == Lowered => \A b \in LiveBlocks(gen) : PhiMatches(gen, b)

\* The continuation slot an indirect branch reads: the environment operand of
\* the GetLocal that produces its destination.
SlotOf(g, ib) == (CHOOSE r \in AllInsns(g) : r.id = ib.args[1].n).args[1]

\* The blocks the emitted code stores into the continuation slot k.
StoredInto(g, k) ==
  {w.args[2].n : w \in {x \in AllInsns(g) : x.op = "SetLocal" /\ x.s = ".k" /\ x.args[1] = k}}

\* C5: for every try/finally statement, the candidate targets of the indirect
\* branch emitted after the finally block are exactly the blocks that the
\* emitted code stores into the continuation slot `.k` of that statement.
C5_IndirectBranchCandidates ==
  Lowered => \A ib \in AllInsns(gen) :
                ib.op = "IndirectBranch" => Range(ib.blks) = StoredInto(gen, SlotOf(gen, ib))

\* C9: after any statement visitor finishes, normally or because a nested
\* visit failed, the context fields it may override (current function,
\* environments, globals, break, continue, return and unwind targets) hold the
\* values they had when the visitor was entered.
C9_ContextRestored == gen.unrestored = {}

\* C10: once a basic block has received its terminator no visitor appends
\* another instruction to it.
C10_NoAppendAfterTerminator == gen.late = {}

\* ---- the statements of the program, by location
\* The clause of the try statement w that holds the statement nested in it.
InnerClause(w) ==
  CASE w \in {"TryFinally", "TryExcept"} -> "body"
    [] w = "TryFinallyFinal" -> "finalbody"
    [] w \in {"TryExceptHandler", "TryExceptFinallyHandler"} -> "handler"
    [] w = "TryElse" -> "orelse"
    [] OTHER -> "none"

\* The clause of the try statement w that holds its own call at loc + d.
OwnClause(w, d) ==
  CASE d = 1 /\ w \in {"TryFinallyFinal", "TryExceptHandler", "TryExceptFinallyHandler", "TryElse"} -> "body"
    [] d = 1 /\ w = "TryExcept" -> "handler"
    [] d = 5 /\ w = "TryElse" -> "handler"
    [] d = 2 /\ w \in {"TryFinally", "TryExceptFinallyHandler"} -> "finalbody"
    [] OTHER -> "none"

\* The nesting levels of the try statements whose body holds the call at loc.
TryBodyLevels(chain, loc) ==
  {j \in 1..Len(chain) :
     \/ j < loc \div 10 /\ InnerClause(chain[j]) = "body"
     \/ j = loc \div 10 /\ loc % 10 \in {0, 3} /\ InnerClause(chain[j]) = "body"
     \/ j = loc \div 10 /\ loc % 10 \notin {0, 3} /\ OwnClause(chain[j], loc % 10) = "body"}

Max(S) == CHOOSE x \in S : \A y \in S : y <= x

Ended == status \in {"returned", "raised", "unreachable", "malformed"}

\* The block with this name created while the statement at loc was lowered.
BlockAt(name, loc) ==
  CHOOSE b \in 1..Len(gen.blocks) : gen.blocks[b].name = name /\ gen.blocks[b].loc = loc

\* The positions of the history at which block b was entered.
Entered(b) == {i \in 1..Len(hist) : hist[i] = BlockEvent(b)}

\* The positions of the block entries that follow position i.
Later(i) == {j \in (i + 1)..Len(hist) : hist[j].e = "block"}

\* The block entered next after position i is b.
NextIs(i, b) == (Later(i) # {}) => (hist[CHOOSE j \in Later(i) : \A h \in Later(i) : j <= h].n = b)

\* The try statement of the programs below is the innermost compound statement.
TryLoc == 10 * Len(prog.chain)

\* C3: in the graph emitted for a try/finally statement whose body returns,
\* raises, breaks out of an enclosing loop or completes normally, the finally
\* body is emitted once, every such path executes the finally block exactly
\* once, and after it control reaches the real target of the path: the return
\* of the value, the loop's break block, the statement after the try.
C3_FinallyOnEveryPath ==
  ( /\ Lowered
    /\ \/ prog.chain = <<"TryFinally">> /\ prog.leaf \in {"Return", "Raise", "Call"}
       \/ prog.chain = <<"While", "TryFinally">> /\ prog.leaf = "Break" )
  => /\ Cardinality({b \in LiveBlocks(gen) : gen.blocks[b].name = "finally"}) = 1
     /\ ((Ended /\ Entered(BlockAt("try.body", TryLoc)) # {}) =>
          /\ Cardinality(Entered(BlockAt("finally", TryLoc))) = 1
          /\ status # "malformed"
          /\ ((status = "returned" /\ prog.leaf = "Return") => result = Constant(7)))
     /\ (prog.leaf = "Break" =>
          \A i \in Entered(BlockAt("finally", TryLoc)) : NextIs(i, BlockAt("while.break", 10)))

\* C4: in a try statement with handlers and a finally clause, a break,
\* continue or return inside a handler body and the normal completion of a
\* handler body go through the finally block: every path that has entered a
\* handler executes the finally block exactly once before it leaves the try.
C4_HandlerExitsRunFinally ==
  ( /\ Lowered
    /\ \/ prog.chain = <<"TryExceptFinallyHandler">> /\ prog.leaf \in {"Return", "Call"}
       \/ prog.chain = <<"While", "TryExceptFinallyHandler">> /\ prog.leaf \in {"Break", "Continue"} )
  => ((Ended /\ status # "raised" /\ Entered(BlockAt("handler", TryLoc)) # {}) =>
        /\ status # "malformed"
        /\ \A i \in Entered(BlockAt("handler", TryLoc)) :
              Cardinality({j \in Entered(BlockAt("finally", TryLoc)) :
                              /\ j > i
                              /\ \A h \in Entered(BlockAt("handler", TryLoc)) : ~(i < h /\ h < j)}) = 1)

\* The try/finally statements around the leaf, innermost first, as the
\* sequence of their finally blocks.
RECURSIVE FinallyBlocks(_)
FinallyBlocks(i) ==
  IF i = 0 THEN <<>>
  ELSE (IF prog.chain[i] = "TryFinally" THEN <<BlockEvent(BlockAt("finally", 10 * i))>> ELSE <<>>)
       \o FinallyBlocks(i - 1)

\* The events of the history after position i that enter a finally block.
RECURSIVE FinallyEntries(_)
FinallyEntries(i) ==
  IF i >= Len(hist) THEN <<>>
  ELSE (IF hist[i + 1].e = "block" /\ gen.blocks[hist[i + 1].n].name = "finally"
        THEN <<hist[i + 1]>> ELSE <<>>) \o FinallyEntries(i + 1)

\* The block that holds the lowered return statement of the leaf.
LeafBlock ==
  CHOOSE b \in LiveBlocks(gen) :
    \E i \in 1..Len(gen.blocks[b].insns) :
       /\ gen.blocks[b].insns[i].loc = TryLoc + 10
       /\ gen.blocks[b].insns[i].op \in {"SetLocal", "Return"}

\* C6: a return statement lowered inside the bodies of d nested try/finally
\* statements stores its value in the `.return` slot of the private
\* environment; the path then executes the d finally blocks innermost first,
\* each exactly once, and returns the stored value.
C6_ReturnThroughFinally ==
  ( /\ Lowered
    /\ prog.leaf = "Return"
    /\ \A i \in 1..Len(prog.chain) : prog.chain[i] \in {"TryFinally", "Def"}
    /\ \E i \in 1..Len(prog.chain) : prog.chain[i] = "TryFinally" )
  => /\ \E x \in AllInsns(gen) :
          x.op = "SetLocal" /\ x.s = ".return" /\ x.loc = TryLoc + 10 /\ x.args[2] = Constant(7)
     /\ ((Ended /\ status # "raised" /\ Entered(LeafBlock) # {}) =>
          /\ status = "returned"
          /\ FinallyEntries(0) = FinallyBlocks(Len(prog.chain))
          /\ result = Constant(7))

\* The loop with an else clause of the programs below is the outermost statement.
LoopKind == IF prog.chain[1] = "ForElse" THEN "for" ELSE "while"

\* The instruction that yields the loop condition: the variable read of
\* `while c`, the Phi of `while a and b`, the index comparison of `for`.
CondInsn ==
  CHOOSE x \in AllInsns(gen) :
    CASE prog.chain[1] = "WhileElse" -> x.op = "GetLocal" /\ x.loc = 14
      [] prog.chain[1] = "WhileBool" -> x.op = "Phi" /\ x.loc = 16
      [] OTHER -> x.op = "Compare" /\ x.loc = 10

\* C8: in the graph emitted for a while or for loop with an else clause, the
\* else block is executed on a path exactly when the loop condition evaluated
\* to false in the head block, and every path that leaves the loop through a
\* break statement reaches the loop's tail block without executing the else
\* block.
C8_ElseIffConditionFalse ==
  ( /\ Lowered
    /\ Len(prog.chain) = 1
    /\ prog.chain[1] \in {"WhileElse", "WhileBool", "ForElse"} )
  => /\ \A i \in Entered(BlockAt(LoopKind \o ".else", 10)) :
           CondInsn.id \in DOMAIN regs /\ regs[CondInsn.id] = ConstBool(FALSE)
     /\ ((Ended /\ CondInsn.id \in DOMAIN regs /\ regs[CondInsn.id] = ConstBool(FALSE)) =>
           Entered(BlockAt(LoopKind \o ".else", 10)) # {})
     /\ \A i \in Entered(BlockAt(LoopKind \o ".break", 10)) :
           /\ NextIs(i, BlockAt(LoopKind \o ".tail", 10))
           /\ \A j \in Entered(BlockAt(LoopKind \o ".else", 10)) : j < i

\* ---- the run of an expression program
\* The run has ended: as above, or by an access outside a list.
Finished == Ended \/ status = "fault"

\* The element accesses made so far.
Accesses == mem[AccessLog]

\* The class of the exception object v: the type of the Alloc that made it.
ClassOf(v) ==
  IF v.k = "obj" /\ \E x \in AllInsns(gen) : x.id = v.n
  THEN (CHOOSE x \in AllInsns(gen) : x.id = v.n).s
  ELSE ""

\* The value of the index expression of an index program.
IndexValue ==
  CASE prog.idx = "num" -> prog.k
    [] prog.idx = "neg" -> 0 - prog.k
    [] prog.idx = "name" -> prog.i

\* Python's mapping of an index v into a sequence of length n.
Mapped(n, v) == IF v < 0 THEN n + v ELSE v

\* The run of `return xs[IDX]` or `xs[IDX] = 5` has accessed exactly element m.
AccessedOnly(m) ==
  /\ status = "returned"
  /\ Accesses = <<Access(IF prog.mode = "read" THEN "get" ELSE "set", ListV(1), m)>>
  /\ IF prog.mode = "read"
     THEN result = prog.xs[m + 1]
     ELSE mem[Elts(ListV(1))] = [prog.xs EXCEPT ![m + 1] = Constant(5)]

\* C11: for a sequence of length N, the code emitted for indexing with -k
\* (1 <= k <= N) reads or writes the same element as indexing with N-k,
\* indexing with i (0 <= i < N) accesses element i, and for every index whose
\* mapped value lies outside [0, N) the emitted path allocates an index error
\* and raises it without performing the element access.
C11_IndexMapping ==
  prog.kind = "index" =>
    /\ status # "failed"
    /\ Finished =>
         IF 0 <= Mapped(Len(prog.xs), IndexValue) /\ Mapped(Len(prog.xs), IndexValue) < Len(prog.xs)
         THEN AccessedOnly(Mapped(Len(prog.xs), IndexValue))
         ELSE /\ status = "raised"
              /\ ClassOf(result) = "IndexError"
              /\ Accesses = <<>>
              /\ mem[Elts(ListV(1))] = prog.xs

\* The upper bound and the step of the slice of a slice program.
SliceHi == IF prog.open THEN Len(prog.xs) ELSE prog.hi
SliceStep == IF prog.open THEN 1 ELSE prog.step

\* The length the lowering computes for the slice: (hi - lo) // step.
SliceLen == (SliceHi - prog.lo) \div SliceStep

\* xs after element i of ys has been written to index lo + i*step, for every i.
SliceWritten ==
  [j \in 1..Len(prog.xs) |->
     IF \E i \in 0..(Len(prog.ys) - 1) : prog.lo + i * SliceStep = j - 1
     THEN prog.ys[((j - 1 - prog.lo) \div SliceStep) + 1]
     ELSE prog.xs[j]]

\* C12: for a slice assignment a[lo:hi:step] = rhs with positive step, the
\* emitted code raises a value error exactly when the length of rhs differs
\* from the computed slice length, and when the lengths match it writes
\* element i of rhs to index mapped(lo) + i*step of a for every i and raises
\* nothing.
C12_SliceAssignment ==
  (prog.kind = "slice" /\ prog.lo <= SliceHi /\ SliceHi <= Len(prog.xs)) =>
    /\ status # "failed"
    /\ Finished =>
         IF Len(prog.ys) # SliceLen
         THEN status = "raised" /\ ClassOf(result) = "ValueError"
         ELSE status = "returned" /\ mem[Elts(ListV(1))] = SliceWritten

\* ---- comparison chains
\* The locations of the calls made so far, in order.
CallLocs == [j \in 1..Cardinality({i \in 1..Len(hist) : hist[i].e = "call"}) |->
               hist[CHOOSE i \in 1..Len(hist) :
                      /\ hist[i].e = "call"
                      /\ Cardinality({h \in 1..i : hist[h].e = "call"}) = j].n]

\* The value the call at loc returned.
Returned(loc) == regs[(CHOOSE x \in AllInsns(gen) : x.op = "Call" /\ x.loc = loc).id]

\* Operand j of the chain is the subscript xs[0].
IsIndexOperand(j) == prog.last = "index" /\ j = Len(prog.ops) + 1

\* Operand j of the chain has been evaluated, and its value.
Evaluated(j) ==
  IF IsIndexOperand(j) THEN Accesses # <<>>
  ELSE \E i \in 1..Len(CallLocs) : CallLocs[i] = 10 + j
OperandValue(j) == IF IsIndexOperand(j) THEN prog.xs[1] ELSE Returned(10 + j)

\* The meaning of the comparison operators on integers.
Holds(op, a, b) ==
  CASE op = "Eq" -> a = b
    [] op = "NotEq" -> a # b
    [] op = "Lt" -> a < b
    [] op = "LtE" -> a <= b
    [] op = "Gt" -> a > b
    [] op = "GtE" -> a >= b

\* Comparison j of the chain, between operands j and j + 1.
PairTrue(j) == Holds(prog.ops[j], OperandValue(j).n, OperandValue(j + 1).n)

\* The run of the chain evaluated its operands as the chain demands.
ChainEvaluated ==
  /\ status = "returned"
  \* each operand at most once, from left to right
  /\ \A i \in 1..Len(CallLocs) : \A h \in 1..(i - 1) : CallLocs[h] < CallLocs[i]
  /\ Accesses \in {<<>>, <<Access("get", ListV(1), 0)>>}
  /\ Evaluated(1) /\ Evaluated(2)
  \* operand k + 1 exactly when the comparisons before it were true
  /\ \A k \in 2..Len(prog.ops) :
        Evaluated(k + 1) <=> (Evaluated(k) /\ \A j \in 1..(k - 1) : PairTrue(j))
  /\ result = ConstBool(Evaluated(Len(prog.ops) + 1) /\ \A j \in 1..Len(prog.ops) : PairTrue(j))

\* C13: for a chained comparison of n numeric operands, on every path of the
\* emitted graph each operand is evaluated at most once and in left-to-right
\* order, operand k+1 is evaluated only on paths where all earlier pairwise
\* comparisons were true, and the value of the merging Phi equals
\* (a < b) and (b < c) and so on.
C13_ComparisonChain ==
  prog.kind = "compare" => (status # "failed" /\ (Finished => ChainEvaluated))

\* ---- boolean chains
\* The value the call at loc returned, undefined when it was not made.
ValueAt(loc) ==
  IF \E x \in AllInsns(gen) : x.op = "Call" /\ x.loc = loc /\ x.id \in DOMAIN regs
  THEN Returned(loc)
  ELSE Undef

\* The value v ends the evaluation of a chain of op.
Short(op, v) == v = ConstBool(op = "Or")

\* The nested last operand of a boolean chain, evaluated as Python does: the
\* calls it makes and its value.
NestedOperand ==
  IF prog.nested = "compare"
  THEN [calls |-> <<10 + prog.n, 11 + prog.n>>,
        val |-> ConstBool(ValueAt(10 + prog.n).n < ValueAt(11 + prog.n).n)]
  ELSE IF Short(Other(prog.op), ValueAt(10 + prog.n))
  THEN [calls |-> <<10 + prog.n>>, val |-> ValueAt(10 + prog.n)]
  ELSE [calls |-> <<10 + prog.n, 11 + prog.n>>, val |-> ValueAt(11 + prog.n)]

\* The operands j.. of the chain, evaluated as Python does.
RECURSIVE ChainFrom(_)
ChainFrom(j) ==
  IF j = prog.n /\ prog.nested # "none" THEN NestedOperand
  ELSE IF j = prog.n \/ Short(prog.op, ValueAt(10 + j))
  THEN [calls |-> <<10 + j>>, val |-> ValueAt(10 + j)]
  ELSE [calls |-> <<10 + j>> \o ChainFrom(j + 1).calls, val |-> ChainFrom(j + 1).val]

\* C14: for a boolean and/or over n operands, where an operand may itself
\* span several blocks (a nested boolean chain, a comparison chain), the
\* emitted graph evaluates operands left to right each from its first
\* instruction, stops at the first false operand for `and` (first true
\* operand for `or`) by branching directly to the merge block, and the merge
\* Phi yields that operand's value, or the last operand's value when none
\* short-circuits.
C14_BoolOpShortCircuit ==
  prog.kind = "boolop" =>
    /\ status # "failed"
    /\ Finished =>
         /\ status = "returned"
         /\ CallLocs = ChainFrom(1).calls
         /\ result = ChainFrom(1).val

\* ---- comparisons of lists and tuples
\* The indices (from 0) at which xs and ys of equal length differ.
Mismatches == {i \in 0..(Len(prog.xs) - 1) : prog.xs[i + 1] # prog.ys[i + 1]}

\* The number of pairs of elements an equality test compares: up to and
\* including the first mismatch.
PairsCompared == IF Mismatches = {} THEN Len(prog.xs) ELSE 1 + CHOOSE i \in Mismatches : \A h \in Mismatches : i <= h

\* The head block of the element loop: the target of the loop's back edge.
LoopHead == CHOOSE b \in LiveBlocks(gen) : \E x \in AllInsns(gen) : x.op = "Branch" /\ x.blks = <<b>>

\* The merge block of the list comparison: the block the branch on the
\* equality of the lengths, which ends the entry block of f, takes when the
\* lengths differ.  It starts with the Phi of the result.
MergeBlock == gen.blocks[Entry(2)].insns[Len(gen.blocks[Entry(2)].insns)].blks[2]

\* C15: for list equality on lists of numbers, when the two lengths differ the
\* emitted path goes from the length comparison directly to the merge block
\* with result false and never enters the element loop; when the lengths are
\* equal the loop compares elements in index order, leaves at the first
\* mismatching pair with result false without comparing later elements, and
\* yields true only after all pairs compared equal.
C15_ListEquality ==
  (prog.kind = "listcmp" /\ prog.typ = "list" /\ prog.op = "Eq") =>
    /\ status # "failed"
    /\ Finished =>
         /\ status = "returned"
         /\ result = ConstBool(prog.xs = prog.ys)
         /\ IF Len(prog.xs) # Len(prog.ys)
            THEN /\ Accesses = <<>>
                 /\ Entered(LoopHead) = {}
                 /\ hist[2] = BlockEvent(MergeBlock)
                 /\ gen.blocks[MergeBlock].insns[1].op = "Phi"
            ELSE Accesses = [j \in 1..(2 * PairsCompared) |->
                               Access("get", ListV(IF j % 2 = 1 THEN 1 ELSE 2), (j - 1) \div 2)]

\* Two lists of equal length that differ in their first pair and agree in a
\* later one: the run has compared the first pair only and returned false.
C15_Witness ==
  /\ prog.kind = "listcmp" /\ prog.typ = "list" /\ prog.op = "Eq"
  /\ Len(prog.xs) = 2 /\ Len(prog.ys) = 2
  /\ prog.xs[1] # prog.ys[1] /\ prog.xs[2] = prog.ys[2]
  /\ status = "returned" /\ result = ConstBool(FALSE)
  /\ Len(Accesses) = 2

\* a comes before b in the lexicographic order of sequences of integers.
RECURSIVE LexLess(_, _)
LexLess(a, b) ==
  IF a = <<>> THEN b # <<>>
  ELSE IF b = <<>> THEN FALSE
  ELSE IF a[1].n # b[1].n THEN a[1].n < b[1].n
  ELSE LexLess(Tail(a), Tail(b))

\* Python's structural comparison of two lists or two tuples of integers.
Structural(op, a, b) ==
  CASE op = "Eq" -> a = b
    [] op = "NotEq" -> a # b
    [] op = "Lt" -> LexLess(a, b)
    [] op = "LtE" -> LexLess(a, b) \/ a = b
    [] op = "Gt" -> LexLess(b, a)
    [] op = "GtE" -> LexLess(b, a) \/ a = b

\* C16: for every operator in {!=, <, <=, >, >=} and every pair of integer
\* lists (of equal or different lengths) or same-arity integer tuples over a
\* bounded set, the boolean produced by the emitted comparison code equals the
\* lexicographic structural comparison of the two operands; in particular
\* `x != y` is the negation of `x == y`.
C16_StructuralComparison ==
  (prog.kind = "listcmp" /\ prog.op # "Eq") =>
    /\ status # "failed"
    /\ Finished =>
         /\ status = "returned"
         /\ result = ConstBool(Structural(prog.op, prog.xs, prog.ys))

\* ------------------------------------------------------------------- C17
\* The instructions with operation op in the blocks of function f.
InsnsOf(f, op) ==
  UNION {{<<b, i>> : i \in {j \in DOMAIN gen.blocks[b].insns : gen.blocks[b].insns[j].op = op}} :
           b \in {c \in DOMAIN gen.blocks : gen.blocks[c].fn = f /\ gen.blocks[c].live}}

SingleReturn == prog.kind = "func" /\ status # "start"

OpenAtEnd(e) == e.insns = <<>> \/ e.insns[Len(e.insns)].op \notin Terminators

\* The operation and the operand of the terminator that closes the body
\* recorded in e.
EndTerminator(e) ==
  CASE e.kind = "LambdaT" -> [op |-> "Return", args |-> <<e.value>>]
    [] e.kind = "ModuleT" \/ e.ret = "none" -> [op |-> "Return", args |-> <<ConstNone>>]
    [] OTHER -> [op |-> "Unreachable", args |-> <<>>]

\* The instructions that the block recorded in e holds now.
EndBlock(e) == gen.blocks[e.block].insns

\* C18: the block that is current when the body of a module, function or
\* lambda has been lowered gets, when it is open, exactly one more
\* instruction: Return of none for a module and for a function with return
\* type none, Unreachable for a function with another return type, Return of
\* the body's value for a lambda; when it is terminated it stays as it is.
C18_FinalBlockTerminated ==
  \A e \in gen.ends :
     IF OpenAtEnd(e)
     THEN /\ Len(EndBlock(e)) = Len(e.insns) + 1
          /\ SubSeq(EndBlock(e), 1, Len(e.insns)) = e.insns
          /\ EndBlock(e)[Len(EndBlock(e))].op = EndTerminator(e).op
          /\ EndBlock(e)[Len(EndBlock(e))].args = EndTerminator(e).args
     ELSE EndBlock(e) = e.insns

C18_Witness ==
  /\ status = "returned"
  /\ \E e \in gen.ends : e.kind = "LambdaT" /\ e.value = Constant(7) /\ OpenAtEnd(e)
  /\ \E e \in gen.ends : e.kind = "FunctionDefT" /\ e.ret = "none" /\ OpenAtEnd(e)
  /\ \E e \in gen.ends : e.kind = "ModuleT" /\ OpenAtEnd(e)

\* ------------------------------------------------------------------- C19
\* The leaf is a break, continue or return statement placed directly in the
\* finally clause of the innermost try statement, and has been lowered.
InFinally ==
  /\ prog.chain # <<>> /\ prog.chain[Len(prog.chain)] = "TryFinallyFinal"
  /\ prog.leaf \in {"Break", "Continue", "Return"}
  /\ status # "start" /\ ~gen.failed

\* What was recorded when the finally clause of that try statement began.
TheTry == CHOOSE t \in gen.finals : t.loc = TryLoc

\* The instructions emitted for the leaf.
FinallyLeaf == {i \in AllInsns(gen) : i.loc = TryLoc + 10}

\* The leaf transfers control to the block `target`, or returns from the
\* function when there is no such target.
TransfersTo(target) ==
  /\ \A i \in FinallyLeaf : i.op = "Branch" => i.blks = <<target>>
  /\ IF target = 0
     THEN \E i \in FinallyLeaf : i.op = "Return"
     ELSE \E i \in FinallyLeaf : i.op = "Branch"

\* C19: while the finally clause of a try statement is lowered the break,
\* continue and return targets are those on entry of visit_Try, none of them a
\* proxy block of that statement; a break, continue or return statement in the
\* clause branches to them; and a visit_Try that returns normally leaves the
\* three targets as they were on entry.
C19_FinallyUsesOuterTargets ==
  /\ \A t \in gen.finals :
        /\ t.targets = t.entry
        /\ \A k \in 1..3 : t.targets[k] \notin t.proxies
  /\ InFinally =>
        TransfersTo(TheTry.entry[CASE prog.leaf = "Break" -> 1
                                   [] prog.leaf = "Continue" -> 2
                                   [] prog.leaf = "Return" -> 3])
  /\ \A u \in gen.unrestored : u.kind = "Try" /\ ~u.failed => u.fields \cap {5, 6, 7} = {}

C19_Witness ==
  /\ InFinally /\ prog.chain = <<"While", "TryFinallyFinal">> /\ prog.leaf = "Break"
  /\ TheTry.entry[1] # 0 /\ TransfersTo(TheTry.entry[1])
  /\ status = "returned"

\* ------------------------------------------------------------------- C20
\* The blocks the terminator of block b names.
Successors(b) ==
  IF is_terminated(gen, b) THEN Range(gen.blocks[b].insns[Len(gen.blocks[b].insns)].blks) ELSE {}

\* The blocks an emitted path leads to from the blocks in S.
RECURSIVE ReachableFrom(_)
ReachableFrom(S) ==
  LET T == S \cup UNION {Successors(b) : b \in S}
  IN  IF T = S THEN S ELSE ReachableFrom(T)

\* The innermost compound statement is a try statement all of whose clauses
\* consist of calls, so that its body completes normally.
TryCompletes ==
  /\ Lowered /\ prog.chain # <<>> /\ prog.leaf = "Call"
  /\ InnerClause(prog.chain[Len(prog.chain)]) # "none"

\* C20: when the body of a try statement can complete normally, with or
\* without a finally clause, the tail block is kept, the statement that
\* follows the try statement is lowered into it, and an emitted path leads
\* from the body to it.
C20_TailKept ==
  TryCompletes =>
    /\ gen.blocks[BlockAt("try.tail", TryLoc)].live
    /\ \E i \in Range(gen.blocks[BlockAt("try.tail", TryLoc)].insns) :
          i.op \in {"Call", "Invoke"} /\ i.loc = TryLoc - 7
    /\ BlockAt("try.tail", TryLoc) \in ReachableFrom({BlockAt("try.body", TryLoc)})

\* ------------------------------------------------------------------- C21
\* The number of elements of the range of the program, and the calls p(x) of
\* a loop that passes them in order.
RangeLen == (prog.stop - prog.start) \div prog.step
RangeCalls ==
  [i \in 1..(IF RangeLen > 0 THEN RangeLen ELSE 0) |->
     Access("call", Constant(21), Constant(prog.start + (i - 1) * prog.step))]

\* The block entered last.
LastBlock == hist[CHOOSE i \in DOMAIN hist : hist[i].e = "block" /\ \A j \in (i + 1)..Len(hist) : hist[j].e # "block"].n

\* C21: the graph emitted for `for x in range(start, stop, step)` with
\* step > 0 runs the body for x = start, start + step, ... (L elements, L the
\* floor of (stop - start) / step, none when L <= 0), in this order, with or
\* without a continue in the body, and then leaves the loop through the else
\* clause or the tail, where the function returns.
C21_RangeLoop ==
  prog.kind = "forrange" =>
    /\ status = "run" =>
         /\ Len(Accesses) <= Len(RangeCalls)
         /\ Accesses = SubSeq(RangeCalls, 1, Len(Accesses))
    /\ status = "returned" =>
         /\ Accesses = RangeCalls
         /\ LastBlock = BlockAt("for.tail", 10)
    /\ status \notin {"raised", "unreachable", "malformed", "fault"}

\* ------------------------------------------------------------------- C22
\* xs repeated n times.
Repeated == [i \in 1..(Len(prog.xs) * prog.n) |-> prog.xs[((i - 1) % Len(prog.xs)) + 1]]

\* The body block of the outer copy loop: the first target of the BranchIf of
\* the block the entry block branches to.
OuterHead == gen.blocks[Entry(2)].insns[Len(gen.blocks[Entry(2)].insns)].blks[1]
OuterBody == gen.blocks[OuterHead].insns[Len(gen.blocks[OuterHead].insns)].blks[1]

\* C22: the code emitted for xs * n and n * xs returns, after exactly n passes
\* of the outer copy loop, a list of Len(xs) * n elements, element k * L + j
\* being xs[j].
C22_ListRepeat ==
  prog.kind = "repeat" =>
    /\ status = "returned" =>
         /\ result.k = "obj"
         /\ Elts(result) \in DOMAIN mem
         /\ mem[Elts(result)] = Repeated
         /\ Cardinality(Entered(OuterBody)) = prog.n
    /\ status \notin {"raised", "unreachable", "malformed", "fault"}

\* ------------------------------------------------------------------- C23
\* The Call or Invoke emitted for the call of the program, and the
\* instruction with the identity of the value v.
TheCall == CHOOSE c \in AllInsns(gen) : c.op \in {"Call", "Invoke"} /\ c.loc = 20
InsnOf(v) == CHOOSE x \in AllInsns(gen) : x.id = v.n

\* The value v is what the call has to pass for parameter i: the value
\* supplied positionally or by keyword for a positional parameter and for an
\* optional parameter supplied positionally, else a wrapper that holds the
\* keyword's value, or nothing when no keyword names the parameter.
PassedFor(v, i) ==
  IF i <= prog.given THEN v = Constant(i)
  ELSE IF i <= prog.npos THEN v = Constant(10 + i)
  ELSE /\ v.k = "insn"
       /\ InsnOf(v).op = "Alloc" /\ InsnOf(v).s = "option"
       /\ InsnOf(v).args = IF i \in prog.kw THEN <<Constant(10 + i)>> ELSE <<>>

\* C23: the Call or Invoke emitted for a call of a function with p positional
\* and q optional parameters carries, after the callee, exactly p + q
\* arguments in declaration order, whichever parameters the call supplies
\* positionally and whichever by keyword.
C23_CallArguments ==
  (prog.kind = "call" /\ Lowered) =>
    /\ TheCall.op = (IF prog.intry THEN "Invoke" ELSE "Call")
    /\ Len(TheCall.args) = 1 + prog.npos + prog.nopt
    /\ \A i \in 1..(prog.npos + prog.nopt) : PassedFor(TheCall.args[1 + i], i)

\* ------------------------------------------------------------------- C24
\* The elements the lowering's iteration of the range produces: start + k * step
\* for 0 <= k < (stop - start) // step (_iterable_len, _iterable_get).
RangeElements ==
  {prog.start + k * prog.step : k \in 0..(FloorDiv(prog.stop - prog.start, prog.step) - 1)}

\* C24: `i in range(start, stop, step)` yields true exactly when i is one of
\* the elements the lowering's iteration of the range produces, and `not in`
\* yields the negation.
C24_RangeInclusion ==
  prog.kind = "inrange" =>
    /\ status = "returned" => result = ConstBool((prog.i \in RangeElements) = (prog.op = "In"))
    /\ status \notin {"raised", "unreachable", "malformed", "fault"}

\* ------------------------------------------------------------------- C25
\* The blocks named by the terminator of block b.
Named(b) ==
  UNION {Range(i.blks) : i \in {x \in Range(gen.blocks[b].insns) :
                                  x.op \in {"Branch", "BranchIf", "IndirectBranch", "Invoke"}}}

\* C25: every block named by a branch, conditional branch, indirect branch or
\* invoke of an emitted function is a block of that function, also for a
\* function or lambda defined inside a try statement or a loop.
C25_BlockOwnership ==
  Lowered =>
    \A b \in LiveBlocks(gen) :
       \A t \in Named(b) : gen.blocks[t].fn = gen.blocks[b].fn /\ gen.blocks[t].live


\* ------------------------------------------------------------------- C26
\* Every instruction created so far, in the blocks still attached or not.
Emitted(g) ==
  UNION {{g.blocks[b].insns[j] : j \in DOMAIN g.blocks[b].insns} : b \in DOMAIN g.blocks}

\* The program is `TARGET = 5` with TARGET a subscript a[i] or an attribute a.b.
AssignsToTarget == prog.kind \in {"index", "attr"} /\ prog.mode = "write"

\* The variables that occur in the container and index expressions.
TargetVars == {"xs", "i", "o"}

\* C26: when an assignment to a subscript a[i] or an attribute a.b is lowered,
\* the container and the index expression are lowered in read mode: the
\* lowering completes, the assigned value is written by exactly one SetElem or
\* SetAttr, and no SetLocal to a variable of the container or index expression
\* is emitted.
C26_TargetReadMode ==
  (status # "start" /\ AssignsToTarget) =>
     /\ ~gen.failed
     /\ Cardinality({x \in Emitted(gen) : x.op \in {"SetElem", "SetAttr"}}) = 1
     /\ \A x \in Emitted(gen) : x.op = "SetLocal" => x.s \notin TargetVars

====
